---- MODULE Spec2Model ----
(***************************************************************************)
(* herscat: proxy stress tester.                                           *)
(*                                                                         *)
(* Part I   (Spec, LiveSpec): the subprocess supervisor of process.rs      *)
(*          (start_instances, the monitor task, terminate_all) together    *)
(*          with the main task and the Ctrl+C task of main.rs.             *)
(* Part II  (RunSpec, RunLive): the dispatcher of stressor/mod.rs and      *)
(*          stressor/{download,tcp,udp}.rs: worker spawning, the worker    *)
(*          loops, supervise_workers and the stats reporter's lifetime.    *)
(* Part III (CounterSpec): SharedCounters and their readers.               *)
(***************************************************************************)
(* Each part has its own specification; the variables of the other parts   *)
(* keep their initial values.                                              *)
(***************************************************************************)
EXTENDS Integers, Sequences, FiniteSets, TLC

(* ------------------------------ bounds -------------------------------- *)

\* processes of the program running at the same time
NumProcs == 2
\* config files one of them writes
MaxProcPorts == 2
\* download_once tasks a worker spawns per round (params.concurrency)
MaxDownloads == 2
\* largest counter value followed
MaxCount == 4
\* parse_proxy_list: lines of a content
MaxLines == 3
\* parse_target_list: chunks of a --targets value
MaxTokens == 2

\* num_instances passed to start_instances
NumInstances == 2
\* |proxy_configs|
NumRecords == 2
\* largest --concurrency explored
MaxConcurrency == 3
\* largest number of proxy endpoints (|proxy_ports|) explored
MaxPorts == 2
\* number of tasks that call the counters concurrently
NumCallers == 2
\* number of record_* calls in one behaviour
MaxOps == 3
\* largest chunk or payload size, in bytes
MaxPayload == 2
\* loop iterations of the UDP worker in one behaviour
MaxUdpIters == 4
\* largest --packets-per-conn explored
MaxCap == 2
\* connects and writes of the TCP worker in one behaviour
MaxTcpSteps == 6
\* children terminate() is called on in one behaviour
NumKids == 2
\* ticks of the stats reporter in one behaviour
MaxTicks == 3
\* largest growth of the byte counter in one step
MaxDelta == 2
\* largest value of the byte counter
MaxBytes == 4
\* ports a config file is written for
NumCfgPorts == 3
\* cleanup_all calls terminate_all makes in one behaviour
MaxCleanups == 3
\* requests one HTTP worker starts in one behaviour
MaxRequests == 2
\* chunks of one response body
MaxChunks == 2
\* largest chunk, in bytes
MaxChunkLen == 2

(* ------------------------- program constants -------------------------- *)

U16Max == 65535
U8Max == 255
MaxProbes == 10000
\* `let alpha = 0.3`, in tenths
AlphaTenths == 3
None == -1

\* values of --base-port explored (the default, and one next to u16::MAX)
BasePorts == {10808, 65534}

Callers == {"main", "sigint"}

VARIABLES
    base_port,     \* start_instances argument
    busy,          \* loopback ports held by other programs
    instances,     \* Vec<XrayInstance> behind the mutex
    ports,         \* Vec<u16> built and returned by start_instances
    lock,          \* holder of the tokio Mutex: "free", "start", "monitor", "main", "sigint"
    mainPc,        \* position of the main task
    si,            \* loop index i of start_instances
    probe_port,    \* probe_port of start_instances
    startResult,   \* Result of start_instances: "none", "Ok", "Err"
    monPc,         \* position of the monitor task
    midx,          \* index of the instance the sweep is at (1-based)
    mres,          \* the sweep's latest inst.restart(): <<index, outcome, poll before it>>
    tpc,           \* per caller: position inside terminate_all
    tidx,          \* per caller: loop index of terminate_all
    tcount,        \* per caller: terminate() calls made (`total` of the summary)
    terrs,         \* per caller: `errors > 0`
    tseen,         \* per caller: size of the set when the caller took the mutex
    tcleanup,      \* per caller: cleanup_all was invoked "after_clear" or "before_clear"
    tres,          \* per caller: Result of terminate_all
    dirExists,     \* the scratch directory exists
    hpc,           \* position of the Ctrl+C task
    exitCode,      \* -1 while the process lives, else its exit code
    deadline,      \* config.duration is Some
    wstate,        \* workers: "active" or "blocked" (all of them stuck in I/O)
    goneSpawn,     \* a child was spawned after some terminate_all had returned
    \* ---- Part II
    mode,          \* config.mode
    concurrency,   \* config.concurrency
    nports,        \* config.proxy_ports.len()
    has_end,       \* end_time.is_some(), i.e. config.duration is Some
    reached,       \* Instant::now() >= end
    dpc,           \* position of run() / supervise_workers
    spawned,       \* per endpoint: the number of worker tasks spawned for it
    wcnt,          \* number of worker tasks in each state
    aborted,       \* handle.abort() has been called on the handles
    runResult,     \* Result of run(): "none", "Ok", "Err"
    rpc,           \* stats reporter: "sleep" or "stopped"
    \* ---- Part III
    counters,      \* the four AtomicU64 of SharedCounters
    cpc,           \* per caller: position inside a record_* call
    clen,          \* per caller: payload_bytes of the record_packet under way
    ops,           \* record_* calls begun
    calls,         \* record_* calls begun, per kind, and the sum of their byte arguments
    last_bytes,    \* reporter local
    last_packets,  \* reporter local
    snap,          \* the latest StressStats (StressStats::new before a snapshot)
    \* ---- Part IV (one UDP worker)
    uK,            \* params.packets_per_connection: None, or the cap
    udeadline,     \* params.end_time: "none", "future" or "past"
    upc,           \* position of udp_worker_loop
    uiter,         \* loop iterations begun
    ustream,       \* the open TCP control stream (number of its connect), 0 if none
    uconns,        \* TCP connects that succeeded
    uassoc,        \* association.is_some()
    urelay,        \* the stream on which the held relay_addr was obtained, 0 if none
    ulog,          \* what was written to / read from the latest control stream
    upackets,      \* packets_this_connection
    ucarried,      \* datagrams sent on the latest association
    ufailures,     \* record_failure calls of the worker
    udgrams,       \* datagrams sent by the worker
    \* ---- Part V (build_udp_packet)
    target,        \* the SocketTarget: [host, port]
    payload,       \* params.payload
    built,         \* build_udp_packet has been called on them
    packet,        \* its result
    \* ---- Part VI (one TCP flood worker)
    twK,           \* params.packets_per_connection: None, or the cap
    twdeadline,    \* params.end_time: "none", "future" or "past"
    twpc,          \* position of tcp_worker_loop / send_loop
    twsteps,       \* connects and writes attempted
    twopen,        \* a Socks5Stream is open
    twconns,       \* connects that succeeded
    twwrites,      \* payload writes done on the latest connection
    twfailures,    \* record_failure calls of the worker
    \* ---- Part VII (one HTTP download worker)
    hwkind,         \* which request function runs
    hwdeadline,     \* end_time: "none", "future" or "past"
    hwpc,           \* position of the worker task
    hwreqs,         \* requests started
    hwcount,        \* the counters: success, failure, bytes
    hwstart,        \* the counters when the current request started
    hwreq,          \* what the current request has seen
    \* ---- Part IX (one call of find_next_free_port)
    fpstart,       \* the argument
    fpocc,         \* intervals of ports held by other programs
    fpport,        \* start_port, the port probed next
    fpk,           \* iterations of the loop completed
    fppc,          \* "probe", "drop" or "returned"
    fpresult,      \* the returned port, or None
    fpheld,        \* listeners this call holds
    \* ---- Part X (terminate() on each child of a set)
    tkkids,        \* per child: "running", "zombie" or "reaped"
    tki,           \* index of the child terminate() is called on
    tkpc,          \* "poll", "kill", "wait" or "done"
    tkcur,         \* results of the system calls of the call under way
    tkout,         \* per returned call: its outcome and what it saw
    tkerrors,      \* `errors` of terminate_all
    \* ---- Part XI (one stats reporter)
    rpkind,        \* which reporter runs
    rpmode,        \* config.mode
    rpend,         \* end_time: "none", "future" or "past"
    rppc,          \* "sleep", "check" or "stopped"
    rpbytes,       \* the byte counter
    rplast,        \* last_bytes
    rpema,         \* ema_bytes_per_sec: <<>> for None, <<fraction>> for Some
    rpspeed,       \* the speed of the latest line, a fraction
    rprates,       \* the per-tick rates so far
    rplines,       \* lines logged
    rpticks,       \* ticks made
    rpafter,       \* ticks made at or after the deadline
    \* ---- Part XII (the ConfigGenerator and its scratch directory)
    cgdir,         \* temp_dir exists
    cgfiles,       \* ports whose config_<port>.json exists
    cgever,        \* ports whose config file was ever written
    cgpc,          \* the generator is "live" or "dropped"
    cgres,         \* result of the latest cleanup_all: "none", "Ok", "Err"
    cgvia,         \* who made it: "none", "terminate_all", "drop"
    cgcalls,       \* cleanup_all calls made
    \* ---- Part XIII (parse_proxy_url and the config of its record)
    puurl,         \* the text given to parse_proxy_url
    pupc,          \* "off", "input", "parsed", "generated"
    pures,         \* what parse_proxy_url returned
    pucfg,         \* the stream settings generated for the record
    \* ---- Part XIV (parse_proxy_list)
    pllines,       \* the lines of the content
    pli,           \* the line the loop is at
    plconfigs,     \* configs: the records collected
    plpc,          \* "off", "loop", "returned"
    plres,         \* "none", "Ok", "Err"
    \* ---- Part XV (parse_target_list in the flood modes)
    tgraw,         \* the value of --targets
    tgmode,        \* the mode it is parsed for
    tgi,           \* the chunk the loop is at
    tgtargets,     \* targets: the socket targets collected
    tgpc,          \* "off", "loop", "returned"
    tgres,         \* "none", "Ok", "Err"
    \* ---- Part XVI (two processes of the program, one temp directory)
    xdir,          \* <temp>/herscat_configs exists
    xfiles,        \* ports whose config_<port>.json exists
    xwritten,      \* per process: ports of the configs its children run with
    xpc,           \* per process: "none", "live", "done"
    \* ---- Part XVII (run() returning while tasks may be left)
    jkind,         \* the runner: "multi_mode" or "download_only"
    jdeadline,     \* end_time is "future", "near" (under 100 ms) or "past"
    jwpc,          \* position of the worker task
    jdl,           \* download_once tasks that are running
    jcount,        \* a counter of the runner
    jrun,          \* run() is "running", has "aborted" its workers, "returned"
    jprinted,      \* the value print_stats has printed, None before
    \* ---- Part XVIII (flood workers recording into the counters)
    flen,          \* params.payload.len()
    fwst           \* per worker: "off", "running", "finished", "cancelled"

supVars == <<base_port, busy, instances, ports, lock, mainPc, si, probe_port,
             startResult, monPc, midx, mres, tpc, tidx, tcount, terrs, tseen,
             tcleanup, tres, dirExists, hpc, exitCode, deadline, wstate,
             goneSpawn>>

runVars == <<mode, concurrency, nports, has_end, reached, dpc, spawned, wcnt,
             aborted, runResult, rpc>>

cntVars == <<counters, cpc, clen, ops, calls, last_bytes, last_packets, snap>>

udpVars == <<uK, udeadline, upc, uiter, ustream, uconns, uassoc, urelay, ulog,
             upackets, ucarried, ufailures, udgrams>>

\* the parts added after Part III, which Parts I to III leave alone
pktVars == <<target, payload, built, packet>>

tcpVars == <<twK, twdeadline, twpc, twsteps, twopen, twconns, twwrites, twfailures>>

httpVars == <<hwkind, hwdeadline, hwpc, hwreqs, hwcount, hwstart, hwreq>>

portVars == <<fpstart, fpocc, fpport, fpk, fppc, fpresult, fpheld>>

baseVars == <<supVars, runVars, cntVars, udpVars, pktVars, tcpVars, httpVars, portVars>>

killVars == <<tkkids, tki, tkpc, tkcur, tkout, tkerrors>>

repVars == <<rpkind, rpmode, rpend, rppc, rpbytes, rplast, rpema, rpspeed, rprates,
            rplines, rpticks, rpafter>>

cfgVars == <<cgdir, cgfiles, cgever, cgpc, cgres, cgvia, cgcalls>>

urlVars == <<puurl, pupc, pures, pucfg>>

listVars == <<pllines, pli, plconfigs, plpc, plres>>

targetVars == <<tgraw, tgmode, tgi, tgtargets, tgpc, tgres>>

sharedVars == <<xdir, xfiles, xwritten, xpc>>

joinVars == <<jkind, jdeadline, jwpc, jdl, jcount, jrun, jprinted>>

floodVars == <<flen, fwst>>

laterVars == <<udpVars, pktVars, tcpVars, httpVars, portVars, killVars, repVars, cfgVars, urlVars, listVars, targetVars, sharedVars, joinVars, floodVars>>

vars == <<supVars, runVars, cntVars, laterVars>>

(* ------------------------------ helpers ------------------------------- *)

\* StressConfig.packets_per_connection for --packets-per-conn COUNT:
\* "0 = keep connection open", so no cap for 0 and Some(COUNT) otherwise
PacketsPerConnection(count) == IF count = 0 THEN None ELSE count

\* the values of packets_per_connection the workers are run with
CapOptions == {PacketsPerConnection(count) : count \in 0..MaxCap}

\* variant: the loop head goes on whatever the clock says
EndTimeIgnored(end) == FALSE

\* head of a worker loop: `if let Some(end) = end_time && Instant::now() >= end`
EndTimeReached(end) == end = "past"

\* variant: lock() returns whoever holds the mutex
MutexUnguarded(holder) == TRUE

\* tokio Mutex::lock().await returns only while nobody holds the guard
MutexFree(holder) == holder = "free"

\* u16::saturating_add(1)
SatAdd1(p) == IF p = U16Max THEN U16Max ELSE p + 1

\* ProcessManager::find_next_free_port, occ = the ports that fail to bind
RECURSIVE Probe(_, _, _)
Probe(port, k, occ) ==
    IF k = 0 THEN None
    ELSE IF port \notin occ THEN port
    ELSE IF port = U16Max THEN None
    ELSE Probe(SatAdd1(port), k - 1, occ)

FindNextFreePort(start, occ) == Probe(start, MaxProbes, occ)

\* Child::try_wait: the results it can give for a child
\*   "running" = Ok(None), "exited" = Ok(Some(status)), "err" = Err(_)
\* A cached exit status is returned without a system call.
PollResults(inst) ==
    IF inst.cached THEN {"exited"}
    ELSE IF inst.st = "running" THEN {"running", "err"}
    ELSE {"exited", "err"}

\* the child handle after a poll with result r
Polled(inst, r) == IF r = "exited" THEN [inst EXCEPT !.cached = TRUE] ELSE inst

\* XrayInstance::is_running
IsRunning(r) == r = "running"

\* outcomes of generate_config + spawn + try_wait in XrayInstance::new / restart
SpawnOutcomes == {"config_err", "spawn_err", "exited", "poll_err", "ok"}

\* Command::spawn returned a child
Spawned(o) == o \in {"exited", "poll_err", "ok"}

\* fs::write of the config happened
ConfigWritten(o) == o # "config_err"

Alive == exitCode = -1

\* no inst.restart() result is in scope
NoRestart == <<0, "none", "none">>

(* ------------------------------- Init --------------------------------- *)

InitSup ==
    /\ base_port \in BasePorts
    /\ busy \in {{}, {base_port}, {SatAdd1(base_port)}}
    /\ instances = <<>>
    /\ ports = <<>>
    /\ lock = "free"
    /\ mainPc = "start"
    /\ si = 0
    /\ probe_port = base_port
    /\ startResult = "none"
    /\ monPc = "off"
    /\ midx = 0
    /\ mres = NoRestart
    /\ tpc = [c \in Callers |-> "idle"]
    /\ tidx = [c \in Callers |-> 0]
    /\ tcount = [c \in Callers |-> 0]
    /\ terrs = [c \in Callers |-> FALSE]
    /\ tseen = [c \in Callers |-> 0]
    /\ tcleanup = [c \in Callers |-> "none"]
    /\ tres = [c \in Callers |-> "none"]
    /\ dirExists = TRUE
    /\ hpc = "none"
    /\ exitCode = -1
    /\ deadline \in BOOLEAN
    /\ wstate = "active"
    /\ goneSpawn = FALSE

Modes == {"Download", "TcpFlood", "UdpFlood"}
WorkerStates == {"loop", "io", "finished", "cancelled"}
CounterNames == {"success_events", "failure_events", "bytes_transferred", "packets_sent"}
CallerIds == 1..NumCallers
CallKinds == {"record_success", "record_failure", "record_packet", "bytes_args"}

\* the dispatcher before run() is called
RunIdle ==
    /\ dpc = "idle"
    /\ spawned = <<>>
    /\ wcnt = [st \in WorkerStates |-> 0]
    /\ aborted = FALSE
    /\ runResult = "none"
    /\ reached = FALSE
    /\ rpc = "sleep"

\* SharedCounters::new and a reporter that has not ticked
CountersNew ==
    /\ counters = [n \in CounterNames |-> 0]
    /\ cpc = [w \in CallerIds |-> "idle"]
    /\ clen = [w \in CallerIds |-> 0]
    /\ ops = 0
    /\ calls = [k \in CallKinds |-> 0]
    /\ last_bytes = 0
    /\ last_packets = 0
    /\ snap = [n \in CounterNames |-> 0]

\* a UDP worker that has not started, without cap and deadline
UdpIdle ==
    /\ upc = "top" /\ uiter = 0
    /\ ustream = 0 /\ uconns = 0 /\ uassoc = FALSE /\ urelay = 0 /\ ulog = <<>>
    /\ upackets = 0 /\ ucarried = 0 /\ ufailures = 0 /\ udgrams = 0

\* no packet is being built
PktIdle ==
    /\ target = [host |-> [text |-> <<>>, ip |-> <<"none", <<>>>>], port |-> 0]
    /\ payload = <<0>>
    /\ built = FALSE
    /\ packet = [ok |-> FALSE, bytes |-> <<>>]

\* a TCP worker that has not started
TcpIdle ==
    /\ twpc = "top" /\ twsteps = 0 /\ twopen = FALSE /\ twconns = 0
    /\ twwrites = 0 /\ twfailures = 0

TcpIdleNoCap == TcpIdle /\ twK = None /\ twdeadline = "none"

\* an HTTP worker task that has just been spawned
HttpIdle ==
    /\ hwpc = "build" /\ hwreqs = 0
    /\ hwcount = [success |-> 0, failure |-> 0, bytes |-> 0]
    /\ hwstart = [success |-> 0, failure |-> 0, bytes |-> 0]
    /\ hwreq = [headers |-> FALSE, error |-> "none", chunks |-> 0, n |-> 0]

HttpIdleNoEnd == HttpIdle /\ hwkind = "execute_request" /\ hwdeadline = "none"

\* no call of find_next_free_port under way
PortIdle ==
    /\ fpstart = 10808 /\ fpocc = <<>> /\ fpport = 10808 /\ fpk = 0
    /\ fppc = "returned" /\ fpresult = 10808 /\ fpheld = {}

\* no terminate() under way, no child
KillIdle ==
    /\ tkkids = <<>> /\ tki = 1 /\ tkpc = "done" /\ tkout = <<>> /\ tkerrors = 0
    /\ tkcur = [poll |-> "none", kill |-> "none", wait |-> "none"]

\* no reporter started
RepIdle ==
    /\ rpkind = "multi_mode" /\ rpmode = "Download" /\ rpend = "none" /\ rppc = "stopped"
    /\ rpbytes = 0 /\ rplast = 0 /\ rpema = <<>> /\ rpspeed = [n |-> 0, d |-> 1]
    /\ rprates = <<>> /\ rplines = 0 /\ rpticks = 0 /\ rpafter = 0

\* a generator nothing was done with
CfgIdle ==
    /\ cgdir = TRUE /\ cgfiles = {} /\ cgever = {} /\ cgpc = "live"
    /\ cgres = "none" /\ cgvia = "none" /\ cgcalls = 0

\* no URL is being parsed
UrlIdle ==
    /\ puurl = [form |-> "empty", scheme |-> "", user |-> "", password |-> <<>>,
                host |-> <<>>, port |-> <<>>, security |-> <<>>, pbk |-> <<>>,
                sid |-> <<>>, type |-> <<>>]
    /\ pupc = "off"
    /\ pures = [ok |-> FALSE, kind |-> "none", port |-> 0, security |-> "",
                public_key |-> <<>>, short_id |-> <<>>]
    /\ pucfg = [ok |-> FALSE, reality |-> <<>>]

\* no list is being parsed
ListIdle ==
    /\ pllines = <<>> /\ pli = 1 /\ plconfigs = <<>>
    /\ plpc = "off" /\ plres = "none"

\* no target list is being parsed
TargetIdle ==
    /\ tgraw = <<>> /\ tgmode = "TcpFlood" /\ tgi = 1 /\ tgtargets = <<>>
    /\ tgpc = "off" /\ tgres = "none"

\* no second process is looked at
SharedIdle ==
    /\ xdir = TRUE /\ xfiles = {}
    /\ xwritten = [p \in 1..NumProcs |-> {}]
    /\ xpc = [p \in 1..NumProcs |-> "none"]

\* no run() is looked at
JoinIdle ==
    /\ jkind = "multi_mode" /\ jdeadline = "future" /\ jwpc = "off"
    /\ jdl = 0 /\ jcount = 0 /\ jrun = "off" /\ jprinted = None

\* no flood worker is looked at
FloodIdle ==
    /\ flen = 1
    /\ fwst = [w \in CallerIds |-> "off"]

LaterIdle ==
    /\ UdpIdle /\ uK = None /\ udeadline = "none" /\ PktIdle /\ TcpIdleNoCap
    /\ HttpIdleNoEnd
    /\ PortIdle
    /\ KillIdle
    /\ RepIdle
    /\ CfgIdle
    /\ UrlIdle
    /\ ListIdle
    /\ TargetIdle
    /\ SharedIdle
    /\ JoinIdle
    /\ FloodIdle


Init ==
    /\ LaterIdle
    /\ InitSup
    /\ RunIdle /\ mode = "Download" /\ concurrency = 1 /\ nports = 1 /\ has_end = FALSE
    /\ CountersNew

(* --------------------- start_instances (main task) -------------------- *)

\* inputs of Part I, and the parts of the program Part I does not touch
envVars   == <<base_port, busy, deadline, runVars, cntVars, laterVars>>
startVars == <<ports, si, probe_port, startResult>>
monVars   == <<monPc, midx, mres>>
termVars  == <<tpc, tidx, tcount, terrs, tseen, tcleanup, tres>>
dirVars   == <<dirExists>>

\* some terminate_all call has returned
TerminateReturned == \E c \in Callers : tres[c] # "none"

\* generate_config needs the scratch directory: fs::write fails without it
SpawnOutcomesIn(dir) == IF dir THEN SpawnOutcomes ELSE {"config_err"}

\* ports on which a running child of ours may already be listening
ListenPorts == {instances[k].port : k \in {j \in 1..Len(instances) : instances[j].st = "running"}}

\* the XrayInstance built by XrayInstance::new for instance number i (0-based)
NewInstance(port, i) ==
    [port |-> port, rec |-> i % NumRecords, st |-> "running", cached |-> FALSE]

\* variant: an error as soon as one instance failed
StartInstancesAllOrNothing(ps) == IF Len(ps) < NumInstances THEN "Err" ELSE "Ok"

\* `if ports.is_empty() { return Err(..) } ... Ok(ports)`
StartInstancesResult(ps) == IF ps = <<>> THEN "Err" ELSE "Ok"

\* `let mut instances = self.instances.lock().await;`
StartLock ==
    /\ Alive /\ mainPc = "start" /\ MutexFree(lock)
    /\ lock' = "start"
    /\ mainPc' = "start_loop"
    /\ si' = 0
    /\ probe_port' = base_port
    /\ ports' = <<>>
    /\ UNCHANGED <<envVars, instances, startResult, monVars, termVars, dirVars,
                   hpc, exitCode, wstate, goneSpawn>>

\* one iteration of `for i in 0..num_instances`
StartIter ==
    /\ Alive /\ mainPc = "start_loop" /\ lock = "start" /\ si < NumInstances
    /\ \E bound \in SUBSET ListenPorts :
         LET port == FindNextFreePort(probe_port, busy \cup bound) IN
         IF port = None
         THEN \* `break`
              /\ mainPc' = "start_ret"
              /\ UNCHANGED <<instances, ports, si, probe_port, goneSpawn>>
         ELSE \E o \in SpawnOutcomesIn(dirExists) :
              /\ probe_port' = SatAdd1(port)
              /\ instances' = IF o = "ok" THEN Append(instances, NewInstance(port, si))
                                          ELSE instances
              /\ ports' = IF o = "ok" THEN Append(ports, port) ELSE ports
              /\ goneSpawn' = (goneSpawn \/ (Spawned(o) /\ TerminateReturned))
              /\ si' = si + 1
              /\ mainPc' = IF si + 1 = NumInstances THEN "start_ret" ELSE "start_loop"
    /\ UNCHANGED <<envVars, lock, startResult, monVars, termVars, dirVars,
                   hpc, exitCode, wstate>>

\* the end of start_instances: the result, and the guard goes out of scope
StartReturn ==
    /\ Alive /\ mainPc = "start_ret" /\ lock = "start"
    /\ startResult' = StartInstancesResult(ports)
    /\ lock' = "free"
    /\ mainPc' = IF StartInstancesResult(ports) = "Ok" THEN "monitor_start" ELSE "failed"
    /\ UNCHANGED <<envVars, instances, ports, si, probe_port, monVars, termVars,
                   dirVars, hpc, exitCode, wstate, goneSpawn>>

\* ConfigGenerator::cleanup_all: what it can do given whether the directory exists
CleanupOutcomes(dir) == IF dir THEN {"removed", "failed"} ELSE {"absent"}

\* main returns the error of start_instances; ConfigGenerator is dropped
MainStartupFail ==
    /\ Alive /\ mainPc = "failed"
    /\ \E co \in CleanupOutcomes(dirExists) : dirExists' = (dirExists /\ co # "removed")
    /\ exitCode' = 1
    /\ mainPc' = "exit"
    /\ UNCHANGED <<envVars, instances, lock, startVars, monVars, termVars,
                   hpc, wstate, goneSpawn>>

(* ------------------------------ main task ------------------------------ *)

\* process_manager.start_monitor(..): the monitor task is spawned
MainStartMonitor ==
    /\ Alive /\ mainPc = "monitor_start"
    /\ monPc' = "lock"
    /\ mainPc' = "sleep"
    /\ UNCHANGED <<envVars, instances, lock, startVars, midx, mres, termVars,
                   dirVars, hpc, exitCode, wstate, goneSpawn>>

\* after the 3 s sleep: the runner is built and the Ctrl+C task is spawned;
\* signal::ctrl_c() either listens or fails to register
MainSpawnHandler ==
    /\ Alive /\ mainPc = "sleep"
    /\ hpc' \in {"wait", "regfail"}
    /\ mainPc' = "run"
    /\ UNCHANGED <<envVars, instances, lock, startVars, monVars, termVars,
                   dirVars, exitCode, wstate, goneSpawn>>

\* every worker ends up blocked in I/O
WorkerBlock ==
    /\ Alive /\ mainPc = "run" /\ wstate = "active"
    /\ wstate' = "blocked"
    /\ UNCHANGED <<envVars, instances, lock, mainPc, startVars, monVars, termVars,
                   dirVars, hpc, exitCode, goneSpawn>>

\* stress_runner.run() returns (only with a deadline), print_stats, then
\* main calls terminate_all
MainRunReturn ==
    /\ Alive /\ mainPc = "run" /\ deadline
    /\ mainPc' = "term"
    /\ tpc' = [tpc EXCEPT !["main"] = "lock"]
    /\ UNCHANGED <<envVars, instances, lock, startVars, monVars, tidx, tcount, terrs,
                   tseen, tcleanup, tres, dirVars, hpc, exitCode, wstate, goneSpawn>>

\* main returns Ok(()) after its terminate_all (`?` would return its error)
MainExit ==
    /\ Alive /\ mainPc = "term" /\ tpc["main"] = "done"
    /\ exitCode' = IF tres["main"] = "Ok" THEN 0 ELSE 1
    /\ mainPc' = "exit"
    /\ UNCHANGED <<envVars, instances, lock, startVars, monVars, termVars,
                   dirVars, hpc, wstate, goneSpawn>>

(* ----------------------------- environment ----------------------------- *)

\* a running xray child exits on its own
Crash ==
    /\ Alive
    /\ \E i \in 1..Len(instances) :
         /\ instances[i].st = "running"
         /\ instances' = [instances EXCEPT ![i].st = "exited"]
    /\ UNCHANGED <<envVars, lock, mainPc, startVars, monVars, termVars,
                   dirVars, hpc, exitCode, wstate, goneSpawn>>

(* ---------------------------- monitor task ----------------------------- *)

\* `instances.lock().await` of a sweep (the initial check, or after the sleep)
MonLock ==
    /\ Alive /\ monPc = "lock" /\ MutexFree(lock)
    /\ lock' = "monitor"
    /\ monPc' = "check"
    /\ midx' = 1
    /\ mres' = NoRestart
    /\ UNCHANGED <<envVars, instances, mainPc, startVars, termVars, dirVars,
                   hpc, exitCode, wstate, goneSpawn>>

\* `if inst.is_running() { alive += 1 } else { ... inst.restart(&cfg) ... }`:
\* the poll of the sweep for instance midx
MonCheck ==
    /\ Alive /\ monPc = "check" /\ lock = "monitor" /\ midx <= Len(instances)
    /\ \E r \in PollResults(instances[midx]) :
         /\ instances' = [instances EXCEPT ![midx] = Polled(@, r)]
         /\ IF IsRunning(r)
            THEN /\ midx' = midx + 1
                 /\ monPc' = "check"
            ELSE /\ midx' = midx
                 /\ monPc' = "restart"
    /\ mres' = NoRestart
    /\ UNCHANGED <<envVars, lock, mainPc, startVars, termVars, dirVars,
                   hpc, exitCode, wstate, goneSpawn>>

\* variant: the new child handle is not stored
RespawnedHandleLost(inst) == inst

\* variant: the restart moves the instance to the next port
RespawnedOnNextPort(inst) ==
    [inst EXCEPT !.st = "running", !.cached = FALSE, !.port = SatAdd1(@)]

\* the XrayInstance after `self.process = process`
Respawned(inst) == [inst EXCEPT !.st = "running", !.cached = FALSE]

\* variant: the new child is stored before its status is looked at
RestartFailedChildStored(inst, r, o) ==
    IF Spawned(o)
    THEN [inst EXCEPT !.st = IF o = "exited" THEN "exited" ELSE "running",
                      !.cached = FALSE]
    ELSE Polled(inst, r)

\* the XrayInstance after restart returned Err with outcome o: every error
\* return comes before `self.process = process`, so only the poll r of
\* is_running has touched the old child handle
RestartFailed(inst, r, o) == Polled(inst, r)

\* XrayInstance::restart for instance midx, called by the sweep
MonRestart ==
    /\ Alive /\ monPc = "restart" /\ lock = "monitor"
    /\ \E r \in PollResults(instances[midx]) :
         IF IsRunning(r)
         THEN \* "Requested restart but xray-core is still running": Ok(())
              /\ mres' = <<midx, "still_running", r>>
              /\ UNCHANGED <<instances, goneSpawn>>
         ELSE \E o \in SpawnOutcomesIn(dirExists) :
              /\ mres' = <<midx, o, r>>
              /\ instances' = [instances EXCEPT ![midx] =
                                  IF o = "ok" THEN Respawned(@)
                                  ELSE RestartFailed(@, r, o)]
              /\ goneSpawn' = (goneSpawn \/ (Spawned(o) /\ TerminateReturned))
    /\ midx' = midx + 1
    /\ monPc' = "check"
    /\ UNCHANGED <<envVars, lock, mainPc, startVars, termVars, dirVars,
                   hpc, exitCode, wstate>>

\* end of the sweep: the guard is dropped and the task sleeps for `interval`
MonUnlock ==
    /\ Alive /\ monPc = "check" /\ lock = "monitor" /\ midx > Len(instances)
    /\ lock' = "free"
    /\ monPc' = "sleep"
    /\ mres' = NoRestart
    /\ UNCHANGED <<envVars, instances, mainPc, startVars, midx,
                   termVars, dirVars, hpc, exitCode, wstate, goneSpawn>>

\* `sleep(interval).await` is over
MonWake ==
    /\ Alive /\ monPc = "sleep"
    /\ monPc' = "lock"
    /\ UNCHANGED <<envVars, instances, lock, mainPc, startVars, midx, mres,
                   termVars, dirVars, hpc, exitCode, wstate, goneSpawn>>

(* ---------------------------- terminate_all ---------------------------- *)

\* XrayInstance::terminate: the pairs <<status, child afterwards>> it can give;
\* status "Err" is the Err(..) return (kill failed, or the wait after it did)
TerminateOutcomes(inst) ==
    UNION { IF IsRunning(r)
            THEN { <<"Killed", [inst EXCEPT !.st = "exited", !.cached = TRUE]>>,
                   <<"Err", [inst EXCEPT !.st = "exited"]>>,
                   <<"RaceExited", [inst EXCEPT !.st = "exited"]>>,
                   <<"RaceExited", [inst EXCEPT !.st = "exited", !.cached = TRUE]>>,
                   <<"Err", inst>> }
            ELSE { <<"AlreadyExited", Polled(inst, r)>> }
          : r \in PollResults(inst) }

\* variant: only the instances whose child is gone are removed
ClearInstancesRetainRunning(insts) ==
    SelectSeq(insts, LAMBDA inst : inst.st = "running")

\* variant: the set is not emptied
ClearInstancesForgotten(insts) == insts

\* `instances.clear()`
ClearInstances(insts) == <<>>

\* variant: a child failure is returned to the caller
TerminateAllResultStrict(errs) == IF errs THEN "Err" ELSE "Ok"

\* the value terminate_all returns, errs = `errors > 0`
TerminateAllResult(errs) == "Ok"

\* `let mut instances = self.instances.lock().await;`
TermLock(c) ==
    /\ Alive /\ tpc[c] = "lock" /\ MutexFree(lock)
    /\ lock' = c
    /\ tpc' = [tpc EXCEPT ![c] = "iter"]
    /\ tidx' = [tidx EXCEPT ![c] = 1]
    /\ tcount' = [tcount EXCEPT ![c] = 0]
    /\ terrs' = [terrs EXCEPT ![c] = FALSE]
    /\ tseen' = [tseen EXCEPT ![c] = Len(instances)]
    /\ UNCHANGED <<envVars, instances, mainPc, startVars, monVars, tcleanup, tres,
                   dirVars, hpc, exitCode, wstate, goneSpawn>>

\* one iteration of `for instance in instances.iter_mut()`
TermIter(c) ==
    /\ Alive /\ tpc[c] = "iter" /\ lock = c /\ tidx[c] <= Len(instances)
    /\ \E out \in TerminateOutcomes(instances[tidx[c]]) :
         /\ instances' = [instances EXCEPT ![tidx[c]] = out[2]]
         /\ terrs' = [terrs EXCEPT ![c] = @ \/ out[1] = "Err"]
    /\ tcount' = [tcount EXCEPT ![c] = @ + 1]
    /\ tidx' = [tidx EXCEPT ![c] = @ + 1]
    /\ UNCHANGED <<envVars, lock, mainPc, startVars, monVars, tpc, tseen, tcleanup,
                   tres, dirVars, hpc, exitCode, wstate, goneSpawn>>

\* `instances.clear()`: every XrayInstance is dropped (Drop runs terminate()
\* once more, on a child that is no longer tracked afterwards)
TermClear(c) ==
    /\ Alive /\ tpc[c] = "iter" /\ lock = c /\ tidx[c] > Len(instances)
    /\ instances' = ClearInstances(instances)
    /\ tpc' = [tpc EXCEPT ![c] = "cleanup"]
    /\ UNCHANGED <<envVars, lock, mainPc, startVars, monVars, tidx, tcount, terrs,
                   tseen, tcleanup, tres, dirVars, hpc, exitCode, wstate, goneSpawn>>

\* `if let Err(e) = self.config_generator.cleanup_all() { log::warn!(..) }`
TermCleanup(c) ==
    /\ Alive /\ tpc[c] = "cleanup" /\ lock = c
    /\ \E co \in CleanupOutcomes(dirExists) : dirExists' = (dirExists /\ co # "removed")
    /\ tcleanup' = [tcleanup EXCEPT ![c] =
                       IF instances = <<>> THEN "after_clear" ELSE "before_clear"]
    /\ tpc' = [tpc EXCEPT ![c] = "summary"]
    /\ UNCHANGED <<envVars, instances, lock, mainPc, startVars, monVars, tidx, tcount,
                   terrs, tseen, tres, hpc, exitCode, wstate, goneSpawn>>

\* the shutdown summary, `Ok(())`, and the guard is dropped
TermReturn(c) ==
    /\ Alive /\ tpc[c] = "summary" /\ lock = c
    /\ tres' = [tres EXCEPT ![c] = TerminateAllResult(terrs[c])]
    /\ tpc' = [tpc EXCEPT ![c] = "done"]
    /\ lock' = "free"
    /\ UNCHANGED <<envVars, instances, mainPc, startVars, monVars, tidx, tcount,
                   terrs, tseen, tcleanup, dirVars, hpc, exitCode, wstate, goneSpawn>>

TerminateAll(c) ==
    TermLock(c) \/ TermIter(c) \/ TermClear(c) \/ TermCleanup(c) \/ TermReturn(c)

(* ----------------------------- Ctrl+C task ----------------------------- *)

\* SIGINT arrives while the task awaits signal::ctrl_c()
Sigint ==
    /\ Alive /\ hpc = "wait"
    /\ hpc' = "print"
    /\ UNCHANGED <<envVars, instances, lock, mainPc, startVars, monVars, termVars,
                   dirVars, exitCode, wstate, goneSpawn>>

\* what `for instance in instances.iter_mut() { let _ = instance.terminate(); }`
\* can leave behind: every instance goes through terminate(), the statuses
\* are thrown away
RECURSIVE TerminatedEach(_)
TerminatedEach(insts) ==
    IF insts = <<>> THEN {<<>>}
    ELSE { <<out[2]>> \o rest : out \in TerminateOutcomes(Head(insts)),
                                rest \in TerminatedEach(Tail(insts)) }

\* Drop for ProcessManager, run for the handle that goes away:
\* `if let Ok(mut instances) = self.instances.try_lock()` terminates every
\* instance of the shared set; with the mutex held the drop does nothing
DropManager(insts, holder) ==
    IF MutexFree(holder) THEN TerminatedEach(insts) ELSE {insts}

\* signal::ctrl_c() returned Err: log::error!, the task ends and its
\* `process_manager_clone` is dropped
HandlerDropClone ==
    /\ Alive /\ hpc = "regfail"
    /\ instances' \in DropManager(instances, lock)
    /\ hpc' = "dropped"
    /\ UNCHANGED <<envVars, lock, mainPc, startVars, monVars, termVars,
                   dirVars, exitCode, wstate, goneSpawn>>

\* variant: the task first waits until no worker is stuck
HandlerWaitsForWorkers(w) == w # "blocked"

\* what the Ctrl+C task needs of the workers before it goes on: nothing
HandlerMayProceed(w) == TRUE

\* println!, print_stats, then the call of terminate_all
HandlerPrint ==
    /\ Alive /\ hpc = "print" /\ HandlerMayProceed(wstate)
    /\ hpc' = "term"
    /\ tpc' = [tpc EXCEPT !["sigint"] = "lock"]
    /\ UNCHANGED <<envVars, instances, lock, mainPc, startVars, monVars, tidx, tcount,
                   terrs, tseen, tcleanup, tres, dirVars, exitCode, wstate, goneSpawn>>

\* `std::process::exit(0)`
HandlerExit ==
    /\ Alive /\ hpc = "term" /\ tpc["sigint"] = "done"
    /\ exitCode' = 0
    /\ hpc' = "exit"
    /\ UNCHANGED <<envVars, instances, lock, mainPc, startVars, monVars, termVars,
                   dirVars, wstate, goneSpawn>>

(* ---------------------------- specification ---------------------------- *)

MainStep ==
    \/ StartLock \/ StartIter \/ StartReturn \/ MainStartupFail
    \/ MainStartMonitor \/ MainSpawnHandler \/ MainRunReturn
    \/ TerminateAll("main") \/ MainExit

MonitorStep == MonLock \/ MonCheck \/ MonRestart \/ MonUnlock \/ MonWake

HandlerStep ==
    HandlerPrint \/ TerminateAll("sigint") \/ HandlerExit \/ HandlerDropClone

Next ==
    \/ MainStep
    \/ MonitorStep
    \/ HandlerStep
    \/ Sigint
    \/ WorkerBlock
    \/ Crash

Spec == Init /\ [][Next]_vars

\* tokio runs every task that is ready: the main task, the monitor task and
\* the Ctrl+C task each make progress; children and signals need not.
\* tokio::sync::Mutex hands the lock out in FIFO order, so a task waiting in
\* lock().await gets it although others keep taking it (strong fairness).
LiveSpec ==
    /\ Init /\ [][Next]_vars
    /\ WF_vars(MainStep)
    /\ WF_vars(MonitorStep)
    /\ WF_vars(HandlerStep)
    /\ SF_vars(MonLock)
    /\ SF_vars(TermLock("main"))
    /\ SF_vars(TermLock("sigint"))

(* ======================= Part II: the dispatcher ====================== *)

runFrame == <<supVars, cntVars, laterVars>>

\* Part I at rest, for the specifications of the other parts
SupIdle == InitSup /\ base_port = 10808 /\ busy = {} /\ deadline = FALSE

\* Parts I to IX all idle
BaseIdle ==
    /\ SupIdle
    /\ RunIdle /\ mode = "Download" /\ concurrency = 1 /\ nports = 1 /\ has_end = FALSE
    /\ CountersNew
    /\ UdpIdle /\ uK = None /\ udeadline = "none"
    /\ PktIdle
    /\ TcpIdleNoCap
    /\ HttpIdleNoEnd
    /\ PortIdle

\* variant: a missing deadline counts as a deadline that has passed
DeadlineReachedOrUnset(e, r) == ~e \/ r

\* `if let Some(end) = end_time && Instant::now() >= end`
DeadlineReached(e, r) == e /\ r

\* `for worker in 0..config.concurrency` inside the loop over the endpoints:
\* the number of tasks spawned for endpoint idx (0-based) out of n
WorkersForEndpoint(idx, c, n) == c

RECURSIVE SumSeq(_)
SumSeq(s) == IF s = <<>> THEN 0 ELSE Head(s) + SumSeq(Tail(s))

\* handles.len()
NumHandles == SumSeq(spawned)

\* variant: the handles are not aborted at the deadline
AbortHandlesSkipped(a) == a

\* `for handle in &handles { handle.abort(); }`
AbortHandles(a) == TRUE

\* the Result of supervise_workers after join_all, given the number of
\* JoinErrors among the results
JoinResult(nerr) == "Ok"

Move(a, b) == wcnt' = [wcnt EXCEPT ![a] = @ - 1, ![b] = @ + 1]

\* the clock passes end_time
DeadlinePasses ==
    /\ has_end /\ ~reached
    /\ reached' = TRUE
    /\ UNCHANGED <<mode, concurrency, nports, has_end, dpc, spawned, wcnt,
                   aborted, runResult, rpc>>
    /\ UNCHANGED runFrame

\* run(): spawn the workers of every endpoint, then enter supervise_workers
RunSpawn ==
    /\ dpc = "idle"
    /\ spawned' = [i \in 1..nports |-> WorkersForEndpoint(i - 1, concurrency, nports)]
    /\ wcnt' = [wcnt EXCEPT !["loop"] = SumSeq(spawned')]
    /\ IF SumSeq(spawned') = 0
       THEN dpc' = "returned" /\ runResult' = "Err"
       ELSE dpc' = (IF has_end THEN "sleep" ELSE "join") /\ runResult' = runResult
    /\ UNCHANGED <<mode, concurrency, nports, has_end, reached, aborted, rpc>>
    /\ UNCHANGED runFrame

\* supervise_workers: the sleep until end_time is over; abort every handle
SuperviseAbort ==
    /\ dpc = "sleep"
    /\ reached
    /\ aborted' = AbortHandles(aborted)
    /\ dpc' = "join"
    /\ UNCHANGED <<mode, concurrency, nports, has_end, reached, spawned, wcnt,
                   runResult, rpc>>
    /\ UNCHANGED runFrame

\* supervise_workers: join_all resolves once every task has ended
SuperviseJoin ==
    /\ dpc = "join"
    /\ wcnt["loop"] = 0 /\ wcnt["io"] = 0
    /\ runResult' = JoinResult(wcnt["cancelled"])
    /\ dpc' = "returned"
    /\ UNCHANGED <<mode, concurrency, nports, has_end, reached, spawned, wcnt,
                   aborted, rpc>>
    /\ UNCHANGED runFrame

\* a worker at the head of its loop: break at the deadline, else start I/O
WorkerCheck ==
    /\ wcnt["loop"] > 0
    /\ IF DeadlineReached(has_end, reached)
       THEN Move("loop", "finished")
       ELSE Move("loop", "io")
    /\ UNCHANGED <<mode, concurrency, nports, has_end, reached, dpc, spawned,
                   aborted, runResult, rpc>>
    /\ UNCHANGED runFrame

\* the awaited I/O of a worker resolves (success or error): next iteration
WorkerIoDone ==
    /\ wcnt["io"] > 0
    /\ Move("io", "loop")
    /\ UNCHANGED <<mode, concurrency, nports, has_end, reached, dpc, spawned,
                   aborted, runResult, rpc>>
    /\ UNCHANGED runFrame

\* an aborted task is cancelled at the await it is suspended in
WorkerCancelled ==
    /\ aborted
    /\ wcnt["io"] > 0
    /\ Move("io", "cancelled")
    /\ UNCHANGED <<mode, concurrency, nports, has_end, reached, dpc, spawned,
                   aborted, runResult, rpc>>
    /\ UNCHANGED runFrame

\* one round of the reporter loop: sleep, report, break at the deadline
ReporterTick ==
    /\ rpc = "sleep"
    /\ rpc' = IF DeadlineReached(has_end, reached) THEN "stopped" ELSE "sleep"
    /\ UNCHANGED <<mode, concurrency, nports, has_end, reached, dpc, spawned,
                   wcnt, aborted, runResult>>
    /\ UNCHANGED runFrame

DispatcherStep == RunSpawn \/ SuperviseAbort \/ SuperviseJoin

RunInit ==
    /\ LaterIdle
    /\ SupIdle
    /\ CountersNew
    /\ RunIdle
    /\ mode \in Modes
    /\ concurrency \in 1..MaxConcurrency
    /\ nports \in 1..MaxPorts
    /\ has_end \in BOOLEAN

RunNext ==
    \/ DeadlinePasses
    \/ DispatcherStep
    \/ WorkerCheck
    \/ WorkerIoDone
    \/ WorkerCancelled
    \/ ReporterTick

RunSpec == RunInit /\ [][RunNext]_vars

\* the clock advances, run() is polled while it can proceed, a worker that
\* is executing reaches its next await, and the runtime cancels an aborted
\* task; I/O itself need not ever resolve.
RunLive ==
    /\ RunInit /\ [][RunNext]_vars
    /\ WF_vars(DeadlinePasses)
    /\ WF_vars(DispatcherStep)
    /\ WF_vars(WorkerCheck)
    /\ WF_vars(WorkerCancelled)

(* ======================= Part III: the counters ======================= *)

cntFrame == <<supVars, runVars, laterVars>>

\* variant: store instead of fetch_add
StoreInstead(cur, n) == n

\* AtomicU64::fetch_add: the new value (no wrap below 2^64 within MaxOps)
FetchAdd(cur, n) == cur + n

\* variant: the length is narrowed to one bit before it is added
PayloadBytesNarrowed(len) == len % 2

\* `payload_bytes as u64`
PayloadBytes(len) == len

Bump(name, n) == counters' = [counters EXCEPT ![name] = FetchAdd(@, n)]

RecordSuccess(w) ==
    /\ cpc[w] = "idle" /\ ops < MaxOps
    /\ Bump("success_events", 1)
    /\ ops' = ops + 1
    /\ calls' = [calls EXCEPT !["record_success"] = @ + 1]
    /\ UNCHANGED <<cpc, clen, last_bytes, last_packets, snap>>
    /\ UNCHANGED cntFrame

RecordFailure(w) ==
    /\ cpc[w] = "idle" /\ ops < MaxOps
    /\ Bump("failure_events", 1)
    /\ ops' = ops + 1
    /\ calls' = [calls EXCEPT !["record_failure"] = @ + 1]
    /\ UNCHANGED <<cpc, clen, last_bytes, last_packets, snap>>
    /\ UNCHANGED cntFrame

RecordBytes(w) ==
    /\ cpc[w] = "idle" /\ ops < MaxOps
    /\ \E n \in 0..MaxPayload :
         /\ Bump("bytes_transferred", n)
         /\ calls' = [calls EXCEPT !["bytes_args"] = @ + n]
    /\ ops' = ops + 1
    /\ UNCHANGED <<cpc, clen, last_bytes, last_packets, snap>>
    /\ UNCHANGED cntFrame

\* record_packet, first statement: self.record_success()
RecordPacketSuccess(w) ==
    /\ cpc[w] = "idle" /\ ops < MaxOps
    /\ \E n \in 1..MaxPayload :
         /\ clen' = [clen EXCEPT ![w] = n]
         /\ calls' = [calls EXCEPT !["record_packet"] = @ + 1, !["bytes_args"] = @ + n]
    /\ Bump("success_events", 1)
    /\ cpc' = [cpc EXCEPT ![w] = "packets"]
    /\ ops' = ops + 1
    /\ UNCHANGED <<last_bytes, last_packets, snap>>
    /\ UNCHANGED cntFrame

\* record_packet, second statement: packets_sent.fetch_add(1)
RecordPacketCount(w) ==
    /\ cpc[w] = "packets"
    /\ Bump("packets_sent", 1)
    /\ cpc' = [cpc EXCEPT ![w] = "bytes"]
    /\ UNCHANGED <<clen, ops, calls, last_bytes, last_packets, snap>>
    /\ UNCHANGED cntFrame

\* record_packet, third statement: bytes_transferred.fetch_add(payload_bytes)
RecordPacketBytes(w) ==
    /\ cpc[w] = "bytes"
    /\ Bump("bytes_transferred", PayloadBytes(clen[w]))
    /\ cpc' = [cpc EXCEPT ![w] = "idle"]
    /\ clen' = [clen EXCEPT ![w] = 0]
    /\ UNCHANGED <<ops, calls, last_bytes, last_packets, snap>>
    /\ UNCHANGED cntFrame

\* the reporter's two loads and the update of its locals
ReporterLoad ==
    /\ last_bytes' = counters["bytes_transferred"]
    /\ last_packets' = counters["packets_sent"]
    /\ UNCHANGED <<counters, cpc, clen, ops, calls, snap>>
    /\ UNCHANGED cntFrame

\* snapshot() / get_current_stats(): four loads
Snapshot ==
    /\ snap' = counters
    /\ UNCHANGED <<counters, cpc, clen, ops, calls, last_bytes, last_packets>>
    /\ UNCHANGED cntFrame

CounterInit ==
    /\ LaterIdle
    /\ SupIdle
    /\ RunIdle /\ mode = "Download" /\ concurrency = 1 /\ nports = 1 /\ has_end = FALSE
    /\ CountersNew

CounterNext ==
    \/ \E w \in CallerIds :
          \/ RecordSuccess(w)
          \/ RecordFailure(w)
          \/ RecordBytes(w)
          \/ RecordPacketSuccess(w)
          \/ RecordPacketCount(w)
          \/ RecordPacketBytes(w)
    \/ ReporterLoad
    \/ Snapshot

CounterSpec == CounterInit /\ [][CounterNext]_vars

(* ======================= Part IV: the UDP worker ====================== *)

udpFrame == <<supVars, runVars, cntVars, pktVars, tcpVars, httpVars, portVars, killVars, repVars, cfgVars, urlVars, listVars, targetVars, sharedVars, joinVars, floodVars>>

\* perform_greeting: the request written
Greeting == <<5, 1, 0>>

\* request_udp_associate: the request written (0.0.0.0:0)
AssociateRequest == <<5, 3, 0, 1, 0, 0, 0, 0, 0, 0>>

\* 2-byte greeting replies a proxy may give
GreetReplies == {<<5, 0>>, <<5, 255>>, <<4, 0>>}

\* 4-byte UDP-ASSOCIATE reply headers a proxy may give: VER REP RSV ATYP
AssocHeaders == {<<5, rep, 0, atyp>> : rep \in {0, 1}, atyp \in {1, 3, 4, 9}}

\* variant: only the version byte of the greeting reply is looked at
GreetingAcceptedAnyMethod(resp) == resp[1] = 5

\* `if response != [0x05, 0x00] { return Err(..) }`
GreetingAccepted(resp) == resp = <<5, 0>>

\* `if header[1] != 0x00 { return Err(..) }`
AssociateAccepted(header) == header[2] = 0

\* read_socks_address: number of address bytes read for an ATYP that yields
\* an address (0x01, 0x04); None for 0x03 (always Err) and any other ATYP
AddrLen(atyp) == IF atyp = 1 THEN 4 ELSE IF atyp = 4 THEN 16 ELSE None

Zeros(n) == [k \in 1..n |-> 0]

\* variant: the control stream is not kept in the association
TcpGuardDropped(stream) == 0

\* `tcp_guard: stream`
TcpGuard(stream) == stream

\* variant: no cap is taken for a cap of 0, `unwrap_or(0)`
CapReachedUnwrapped(n, k) == n >= (IF k = None THEN 0 ELSE k)

\* variant: the cap is compared with `>`
CapReachedLate(n, k) == k # None /\ n > k

\* `if let Some(limit) = params.packets_per_connection && packets_this_connection >= limit`
CapReached(n, k) == k # None /\ n >= k

udpRest(pcv) ==
    /\ upc' = pcv
    /\ UNCHANGED udpFrame

\* UdpAssociation::connect returns Err: the stream is dropped, the worker
\* records a failure and sleeps 250 ms
ConnectFailed ==
    /\ ustream' = 0
    /\ uassoc' = FALSE
    /\ urelay' = 0
    /\ ufailures' = ufailures + 1
    /\ UNCHANGED <<uK, udeadline, uiter, uconns, upackets, ucarried, udgrams>>

\* the clock passes end_time
UdpDeadlinePasses ==
    /\ udeadline = "future"
    /\ udeadline' = "past"
    /\ UNCHANGED <<uK, upc, uiter, ustream, uconns, uassoc, urelay, ulog, upackets,
                   ucarried, ufailures, udgrams>>
    /\ UNCHANGED udpFrame

\* head of the loop: the deadline check, then `if association.is_none()`
UdpTop ==
    /\ upc = "top" /\ uiter < MaxUdpIters
    /\ uiter' = uiter + 1
    /\ IF EndTimeReached(udeadline)
       THEN \* break: the function returns and its locals are dropped
            /\ upc' = "finished"
            /\ ustream' = 0 /\ uassoc' = FALSE /\ urelay' = 0
       ELSE /\ upc' = IF uassoc THEN "send" ELSE "connect"
            /\ UNCHANGED <<ustream, uassoc, urelay>>
    /\ UNCHANGED <<uK, udeadline, uconns, ulog, upackets, ucarried, ufailures, udgrams>>
    /\ UNCHANGED udpFrame

\* TcpStream::connect(("127.0.0.1", proxy_port)).await?
UdpConnect ==
    /\ upc = "connect"
    /\ \/ /\ uconns' = uconns + 1
          /\ ustream' = uconns + 1
          /\ ulog' = <<>>
          /\ UNCHANGED <<uK, udeadline, uiter, uassoc, urelay, upackets, ucarried,
                         ufailures, udgrams>>
          /\ udpRest("greet_send")
       \/ /\ ConnectFailed /\ ulog' = <<>>
          /\ udpRest("backoff250")

\* perform_greeting: stream.write_all(&request).await?
UdpGreetSend ==
    /\ upc = "greet_send"
    /\ \/ /\ ulog' = Append(ulog, <<"tx", Greeting>>)
          /\ UNCHANGED <<uK, udeadline, uiter, ustream, uconns, uassoc, urelay,
                         upackets, ucarried, ufailures, udgrams>>
          /\ udpRest("greet_read")
       \/ /\ ConnectFailed /\ UNCHANGED ulog
          /\ udpRest("backoff250")

\* perform_greeting: read_exact of the 2-byte reply and its check
UdpGreetRead ==
    /\ upc = "greet_read"
    /\ \/ \E resp \in GreetReplies :
             /\ ulog' = Append(ulog, <<"rx", resp>>)
             /\ IF GreetingAccepted(resp)
                THEN /\ UNCHANGED <<uK, udeadline, uiter, ustream, uconns, uassoc, urelay,
                                    upackets, ucarried, ufailures, udgrams>>
                     /\ udpRest("assoc_send")
                ELSE /\ ConnectFailed
                     /\ udpRest("backoff250")
       \/ /\ ConnectFailed /\ UNCHANGED ulog
          /\ udpRest("backoff250")

\* request_udp_associate: stream.write_all(&request).await?
UdpAssocSend ==
    /\ upc = "assoc_send"
    /\ \/ /\ ulog' = Append(ulog, <<"tx", AssociateRequest>>)
          /\ UNCHANGED <<uK, udeadline, uiter, ustream, uconns, uassoc, urelay,
                         upackets, ucarried, ufailures, udgrams>>
          /\ udpRest("hdr_read")
       \/ /\ ConnectFailed /\ UNCHANGED ulog
          /\ udpRest("backoff250")

\* request_udp_associate: read_exact of the 4-byte header, the REP check, and
\* the ATYP dispatch of read_socks_address
UdpHeaderRead ==
    /\ upc = "hdr_read"
    /\ \/ \E header \in AssocHeaders :
             /\ ulog' = Append(ulog, <<"rx", header>>)
             /\ IF AssociateAccepted(header) /\ AddrLen(header[4]) # None
                THEN /\ UNCHANGED <<uK, udeadline, uiter, ustream, uconns, uassoc, urelay,
                                    upackets, ucarried, ufailures, udgrams>>
                     /\ udpRest("addr_read")
                ELSE \* REP != 0, a domain (read and rejected), or an unknown ATYP
                     /\ ConnectFailed
                     /\ udpRest("backoff250")
       \/ /\ ConnectFailed /\ UNCHANGED ulog
          /\ udpRest("backoff250")

\* read_socks_address: the address bytes (4 or 16) and the 2 port bytes
UdpAddrRead ==
    /\ upc = "addr_read"
    /\ \/ /\ ulog' = ulog \o << <<"rx", Zeros(AddrLen(ulog[4][2][4]))>>, <<"rx", Zeros(2)>> >>
          /\ urelay' = ustream
          /\ UNCHANGED <<uK, udeadline, uiter, ustream, uconns, uassoc,
                         upackets, ucarried, ufailures, udgrams>>
          /\ udpRest("bind")
       \/ /\ ConnectFailed /\ UNCHANGED ulog
          /\ udpRest("backoff250")

\* UdpSocket::bind(..).await?, `association = Some(assoc)`,
\* `packets_this_connection = 0`; the worker goes on to send in this iteration
UdpBind ==
    /\ upc = "bind"
    /\ \/ /\ ulog' = Append(ulog, <<"bind", <<>>>>)
          /\ uassoc' = TRUE
          /\ ustream' = TcpGuard(ustream)
          /\ upackets' = 0
          /\ ucarried' = 0
          /\ UNCHANGED <<uK, udeadline, uiter, uconns, urelay, ufailures, udgrams>>
          /\ udpRest("send")
       \/ /\ ConnectFailed /\ UNCHANGED ulog
          /\ udpRest("backoff250")

\* `sleep(Duration::from_millis(250)).await; continue;`
UdpBackoff250 ==
    /\ upc = "backoff250"
    /\ UNCHANGED <<uK, udeadline, uiter, ustream, uconns, uassoc, urelay, ulog,
                   upackets, ucarried, ufailures, udgrams>>
    /\ udpRest("top")

\* send_udp_packet and the match on its result
UdpSend ==
    /\ upc = "send"
    /\ \/ \* Ok(()): the datagram left, record_packet, the cap check
          /\ udgrams' = udgrams + 1
          /\ ucarried' = ucarried + 1
          /\ IF CapReached(upackets + 1, uK)
             THEN /\ uassoc' = FALSE /\ ustream' = 0 /\ urelay' = 0 /\ upackets' = 0
             ELSE /\ upackets' = upackets + 1 /\ UNCHANGED <<uassoc, ustream, urelay>>
          /\ UNCHANGED <<uK, udeadline, uiter, uconns, ulog, ufailures>>
          /\ udpRest("top")
       \/ \* Err: build_udp_packet (oversize domain) or send_to failed
          /\ ufailures' = ufailures + 1
          /\ UNCHANGED <<uK, udeadline, uiter, ustream, uconns, uassoc, urelay, ulog,
                         upackets, ucarried, udgrams>>
          /\ udpRest("backoff200")

\* after `sleep(Duration::from_millis(200)).await`: `association = None`
UdpBackoff200 ==
    /\ upc = "backoff200"
    /\ uassoc' = FALSE /\ ustream' = 0 /\ urelay' = 0 /\ upackets' = 0
    /\ UNCHANGED <<uK, udeadline, uiter, uconns, ulog, ucarried, ufailures, udgrams>>
    /\ udpRest("top")

UdpInit ==
    /\ SupIdle
    /\ RunIdle /\ mode = "UdpFlood" /\ concurrency = 1 /\ nports = 1 /\ has_end = FALSE
    /\ CountersNew
    /\ uK \in CapOptions
    /\ udeadline \in {"none", "future"}
    /\ UdpIdle
    /\ PktIdle
    /\ TcpIdleNoCap
    /\ HttpIdleNoEnd
    /\ PortIdle
    /\ KillIdle
    /\ RepIdle
    /\ CfgIdle
    /\ UrlIdle
    /\ ListIdle
    /\ TargetIdle
    /\ SharedIdle
    /\ JoinIdle
    /\ FloodIdle

UdpNext ==
    \/ UdpDeadlinePasses
    \/ UdpTop
    \/ UdpConnect
    \/ UdpGreetSend
    \/ UdpGreetRead
    \/ UdpAssocSend
    \/ UdpHeaderRead
    \/ UdpAddrRead
    \/ UdpBind
    \/ UdpBackoff250
    \/ UdpSend
    \/ UdpBackoff200

UdpSpec == UdpInit /\ [][UdpNext]_vars

(* ===================== Part V: build_udp_packet ====================== *)

pktFrame == <<supVars, runVars, cntVars, udpVars, tcpVars, httpVars, portVars, killVars, repVars, cfgVars, urlVars, listVars, targetVars, sharedVars, joinVars, floodVars>>

\* a host of n bytes that is no IP literal
NameOfLen(n) == [text |-> [k \in 1..n |-> 97], ip |-> <<"none", <<>>>>]

\* target.host values explored: the text (host.as_bytes()) and what
\* host.parse::<IpAddr>() gives for it: "1.2.3.4", "::1", and names of 2,
\* 255 and 256 bytes
Hosts ==
    { [text |-> <<49, 46, 50, 46, 51, 46, 52>>, ip |-> <<"v4", <<1, 2, 3, 4>>>>],
      [text |-> <<58, 58, 49>>, ip |-> <<"v6", [k \in 1..16 |-> IF k = 16 THEN 1 ELSE 0]>>],
      NameOfLen(2), NameOfLen(U8Max), NameOfLen(U8Max + 1) }

\* target.port values explored
Ports == {0, 53, 256, 443, U16Max}

\* payloads explored: 1..MaxPayload bytes (build_payload never gives none)
Payloads == UNION {[1..n -> {0, 255}] : n \in 1..MaxPayload}

\* variant: the port in little-endian order
PortBytesLittleEndian(p) == <<p % 256, p \div 256>>

\* target.port.to_be_bytes()
PortBytes(p) == <<p \div 256, p % 256>>

\* build_udp_packet: [ok, bytes], ok = FALSE for the Err return
BuildUdpPacket(t, pl) ==
    LET head == <<0, 0, 0>> IN
    IF t.host.ip[1] = "v4"
    THEN [ok |-> TRUE, bytes |-> head \o <<1>> \o t.host.ip[2] \o PortBytes(t.port) \o pl]
    ELSE IF t.host.ip[1] = "v6"
    THEN [ok |-> TRUE, bytes |-> head \o <<4>> \o t.host.ip[2] \o PortBytes(t.port) \o pl]
    ELSE IF Len(t.host.text) > U8Max
    THEN [ok |-> FALSE, bytes |-> <<>>]
    ELSE [ok |-> TRUE,
          bytes |-> head \o <<3>> \o <<Len(t.host.text) % (U8Max + 1)>> \o t.host.text
                    \o PortBytes(t.port) \o pl]

\* send_udp_packet: `let packet = build_udp_packet(target, &params.payload)?;`
BuildPacket ==
    /\ built = FALSE
    /\ built' = TRUE
    /\ packet' = BuildUdpPacket(target, payload)
    /\ UNCHANGED <<target, payload>>
    /\ UNCHANGED pktFrame

\* the next call, with another target and the same payload
NextPacket ==
    /\ built = TRUE
    /\ built' = FALSE
    /\ packet' = [ok |-> FALSE, bytes |-> <<>>]
    /\ \E h \in Hosts, p \in Ports : target' = [host |-> h, port |-> p]
    /\ UNCHANGED payload
    /\ UNCHANGED pktFrame

PacketInit ==
    /\ SupIdle
    /\ RunIdle /\ mode = "UdpFlood" /\ concurrency = 1 /\ nports = 1 /\ has_end = FALSE
    /\ CountersNew
    /\ UdpIdle /\ uK = None /\ udeadline = "none"
    /\ TcpIdleNoCap
    /\ HttpIdleNoEnd
    /\ PortIdle
    /\ \E h \in Hosts, p \in Ports : target = [host |-> h, port |-> p]
    /\ payload \in Payloads
    /\ built = FALSE
    /\ packet = [ok |-> FALSE, bytes |-> <<>>]
    /\ KillIdle
    /\ RepIdle
    /\ CfgIdle
    /\ UrlIdle
    /\ ListIdle
    /\ TargetIdle
    /\ SharedIdle
    /\ JoinIdle
    /\ FloodIdle

PacketNext == BuildPacket \/ NextPacket

PacketSpec == PacketInit /\ [][PacketNext]_vars

(* ==================== Part VI: the TCP flood worker =================== *)

tcpFrame == <<supVars, runVars, cntVars, udpVars, pktVars, httpVars, portVars, killVars, repVars, cfgVars, urlVars, listVars, targetVars, sharedVars, joinVars, floodVars>>

\* variant: the cap is compared with `>`
TcpCapReachedLate(n, k) == k # None /\ n > k

\* `if let Some(limit) = params.packets_per_connection { if packets_this_connection >= limit`
TcpCapReached(n, k) == k # None /\ n >= k

\* variant: a failed connect ends the worker
AfterConnectErrorReturn == "finished"

\* the Err arm of the connect: the worker goes on to the 200 ms sleep
AfterConnectError == "backoff200"

\* the clock passes end_time
TcpDeadlinePasses ==
    /\ twdeadline = "future"
    /\ twdeadline' = "past"
    /\ UNCHANGED <<twK, twpc, twsteps, twopen, twconns, twwrites, twfailures>>
    /\ UNCHANGED tcpFrame

\* head of tcp_worker_loop: the deadline check
TcpTop ==
    /\ twpc = "top"
    /\ twpc' = IF EndTimeReached(twdeadline) THEN "finished" ELSE "connect"
    /\ UNCHANGED <<twK, twdeadline, twsteps, twopen, twconns, twwrites, twfailures>>
    /\ UNCHANGED tcpFrame

\* Socks5Stream::connect(..).await and the match on its result
TcpConnect ==
    /\ twpc = "connect" /\ twsteps < MaxTcpSteps
    /\ twsteps' = twsteps + 1
    /\ \/ \* Ok(stream): send_loop starts with packets_this_connection = 0
          /\ twopen' = TRUE
          /\ twconns' = twconns + 1
          /\ twwrites' = 0
          /\ twpc' = "write"
          /\ UNCHANGED twfailures
       \/ \* Err: record_failure, then sleep 200 ms
          /\ twfailures' = twfailures + 1
          /\ twpc' = AfterConnectError
          /\ UNCHANGED <<twopen, twconns, twwrites>>
    /\ UNCHANGED <<twK, twdeadline>>
    /\ UNCHANGED tcpFrame

\* `sleep(Duration::from_millis(200)).await` after a failed connect
TcpBackoff200 ==
    /\ twpc = "backoff200"
    /\ twpc' = "top"
    /\ UNCHANGED <<twK, twdeadline, twsteps, twopen, twconns, twwrites, twfailures>>
    /\ UNCHANGED tcpFrame

\* one iteration of send_loop: write_all, record_packet, the cap check and
\* the deadline check; on Err the caller records a failure. The stream is
\* dropped when send_loop has returned.
TcpWrite ==
    /\ twpc = "write" /\ twsteps < MaxTcpSteps
    /\ twsteps' = twsteps + 1
    /\ \/ \* write_all returned Ok
          /\ twwrites' = twwrites + 1
          /\ IF TcpCapReached(twwrites + 1, twK) \/ twdeadline = "past"
             THEN twopen' = FALSE /\ twpc' = "top"
             ELSE twopen' = TRUE /\ twpc' = "write"
          /\ UNCHANGED twfailures
       \/ \* write_all returned Err: `?` leaves send_loop, record_failure
          /\ twfailures' = twfailures + 1
          /\ twopen' = FALSE
          /\ twpc' = "top"
          /\ UNCHANGED twwrites
    /\ UNCHANGED <<twK, twdeadline, twconns>>
    /\ UNCHANGED tcpFrame

TcpInit ==
    /\ SupIdle
    /\ RunIdle /\ mode = "TcpFlood" /\ concurrency = 1 /\ nports = 1 /\ has_end = FALSE
    /\ CountersNew
    /\ UdpIdle /\ uK = None /\ udeadline = "none"
    /\ PktIdle
    /\ twK \in CapOptions
    /\ twdeadline \in {"none", "future"}
    /\ TcpIdle
    /\ HttpIdleNoEnd
    /\ PortIdle
    /\ KillIdle
    /\ RepIdle
    /\ CfgIdle
    /\ UrlIdle
    /\ ListIdle
    /\ TargetIdle
    /\ SharedIdle
    /\ JoinIdle
    /\ FloodIdle

TcpNext ==
    \/ TcpDeadlinePasses
    \/ TcpTop
    \/ TcpConnect
    \/ TcpBackoff200
    \/ TcpWrite

TcpSpec == TcpInit /\ [][TcpNext]_vars

(* ==================== Part VII: the HTTP download worker ============== *)

httpFrame == <<supVars, runVars, cntVars, udpVars, pktVars, tcpVars, portVars, killVars, repVars, cfgVars, urlVars, listVars, targetVars, sharedVars, joinVars, floodVars>>

\* the two request functions of the repository
HttpKinds == {"execute_request", "download_once"}

\* sizes of the chunks a body stream may deliver
ChunkSizes == 1..MaxChunkLen

\* what one request has seen so far: nothing
NoRequest == [headers |-> FALSE, error |-> "none", chunks |-> 0, n |-> 0]

\* the Err arm of the chunk match: execute_request calls record_failure,
\* download_once only logs and breaks
StreamErrorFailures(kind) == IF kind = "execute_request" THEN 1 ELSE 0

\* the clock passes end_time
HttpDeadlinePasses ==
    /\ hwdeadline = "future"
    /\ hwdeadline' = "past"
    /\ UNCHANGED <<hwkind, hwpc, hwreqs, hwcount, hwstart, hwreq>>
    /\ UNCHANGED httpFrame

\* the spawned task builds its requests; the targets passed parse_http_target
\* (an http or https URL), so RequestBuilder::build has nothing to reject
HttpBuild ==
    /\ hwpc = "build"
    /\ hwpc' = "top"
    /\ UNCHANGED <<hwkind, hwdeadline, hwreqs, hwcount, hwstart, hwreq>>
    /\ UNCHANGED httpFrame

\* head of the worker loop: the deadline check, then the next request
\* (try_clone of a body-less GET always gives Some)
HttpTop ==
    /\ hwpc = "top"
    /\ IF EndTimeReached(hwdeadline)
       THEN hwpc' = "finished" /\ UNCHANGED <<hwreqs, hwstart, hwreq>>
       ELSE /\ hwreqs < MaxRequests
            /\ hwpc' = "execute"
            /\ hwreqs' = hwreqs + 1
            /\ hwstart' = hwcount
            /\ hwreq' = NoRequest
    /\ UNCHANGED <<hwkind, hwdeadline, hwcount>>
    /\ UNCHANGED httpFrame

\* client.execute(request).await and the match on its result
HttpExecute ==
    /\ hwpc = "execute"
    /\ \/ \* Ok(response): the headers arrived, record_success
          /\ hwcount' = [hwcount EXCEPT !.success = @ + 1]
          /\ hwreq' = [hwreq EXCEPT !.headers = TRUE]
          /\ hwpc' = "stream"
       \/ \* Err: record_failure, the request is over
          /\ hwcount' = [hwcount EXCEPT !.failure = @ + 1]
          /\ hwreq' = [hwreq EXCEPT !.error = "connect"]
          /\ hwpc' = "top"
    /\ UNCHANGED <<hwkind, hwdeadline, hwreqs, hwstart>>
    /\ UNCHANGED httpFrame

\* one `stream.next().await` of the body loop
HttpStream ==
    /\ hwpc = "stream"
    /\ \/ \* Some(Ok(chunk)): record_bytes(chunk.len())
          \E size \in ChunkSizes :
            /\ hwreq.n < MaxChunks
            /\ hwcount' = [hwcount EXCEPT !.bytes = @ + size]
            /\ hwreq' = [hwreq EXCEPT !.chunks = @ + size, !.n = @ + 1]
            /\ hwpc' = "stream"
       \/ \* Some(Err(_)): break
          /\ hwcount' = [hwcount EXCEPT !.failure = @ + StreamErrorFailures(hwkind)]
          /\ hwreq' = [hwreq EXCEPT !.error = "stream"]
          /\ hwpc' = "top"
       \/ \* None: the body ended
          /\ hwpc' = "top"
          /\ UNCHANGED <<hwcount, hwreq>>
    /\ UNCHANGED <<hwkind, hwdeadline, hwreqs, hwstart>>
    /\ UNCHANGED httpFrame

HttpInit ==
    /\ SupIdle
    /\ RunIdle /\ mode = "Download" /\ concurrency = 1 /\ nports = 1 /\ has_end = FALSE
    /\ CountersNew
    /\ UdpIdle /\ uK = None /\ udeadline = "none"
    /\ PktIdle
    /\ TcpIdleNoCap
    /\ hwkind \in HttpKinds
    /\ hwdeadline \in {"none", "future"}
    /\ HttpIdle
    /\ PortIdle
    /\ KillIdle
    /\ RepIdle
    /\ CfgIdle
    /\ UrlIdle
    /\ ListIdle
    /\ TargetIdle
    /\ SharedIdle
    /\ JoinIdle
    /\ FloodIdle

HttpNext ==
    \/ HttpDeadlinePasses
    \/ HttpBuild
    \/ HttpTop
    \/ HttpExecute
    \/ HttpStream

HttpSpec == HttpInit /\ [][HttpNext]_vars

(* ============ Part VIII: the worker of the selected mode ============== *)

\* positions at which a worker task is suspended in an `.await`
HttpAwaits == {"execute", "stream"}
TcpAwaits == {"connect", "write", "backoff200"}
UdpAwaits == {"connect", "greet_send", "greet_read", "assoc_send", "hdr_read",
              "addr_read", "bind", "backoff250", "send", "backoff200"}

\* positions of a task that is over
Ended == {"finished", "cancelled"}

\* no worker of that kind was spawned: run dispatches on the mode
HttpAbsent ==
    /\ hwpc = "off" /\ hwkind = "execute_request" /\ hwdeadline = "none" /\ hwreqs = 0
    /\ hwcount = [success |-> 0, failure |-> 0, bytes |-> 0]
    /\ hwstart = [success |-> 0, failure |-> 0, bytes |-> 0]
    /\ hwreq = NoRequest

TcpAbsent ==
    /\ twpc = "off" /\ twK = None /\ twdeadline = "none" /\ twsteps = 0
    /\ twopen = FALSE /\ twconns = 0 /\ twwrites = 0 /\ twfailures = 0

UdpAbsent ==
    /\ upc = "off" /\ uK = None /\ udeadline = "none" /\ uiter = 0
    /\ ustream = 0 /\ uconns = 0 /\ uassoc = FALSE /\ urelay = 0 /\ ulog = <<>>
    /\ upackets = 0 /\ ucarried = 0 /\ ufailures = 0 /\ udgrams = 0

\* end_time of the worker that runs
WorkerDeadline ==
    CASE mode = "Download" -> hwdeadline
      [] mode = "TcpFlood" -> twdeadline
      [] OTHER -> udeadline

\* supervise_workers: after the sleep until end_time, `handle.abort()`
WorkersAbort ==
    /\ ~aborted
    /\ WorkerDeadline = "past"
    /\ aborted' = TRUE
    /\ UNCHANGED <<mode, concurrency, nports, has_end, reached, dpc, spawned, wcnt,
                   runResult, rpc>>
    /\ UNCHANGED <<supVars, cntVars, laterVars>>

\* an aborted task is dropped at the await it is suspended in, with its locals
WorkersCancelled ==
    /\ aborted
    /\ \/ /\ hwpc \in HttpAwaits
          /\ hwpc' = "cancelled"
          /\ UNCHANGED <<hwkind, hwdeadline, hwreqs, hwcount, hwstart, hwreq>>
          /\ UNCHANGED httpFrame
       \/ /\ twpc \in TcpAwaits
          /\ twpc' = "cancelled"
          /\ twopen' = FALSE
          /\ UNCHANGED <<twK, twdeadline, twsteps, twconns, twwrites, twfailures>>
          /\ UNCHANGED tcpFrame
       \/ /\ upc \in UdpAwaits
          /\ ustream' = 0 /\ uassoc' = FALSE /\ urelay' = 0
          /\ UNCHANGED <<uK, udeadline, uiter, uconns, ulog, upackets, ucarried,
                         ufailures, udgrams>>
          /\ udpRest("cancelled")

WorkersInit ==
    /\ SupIdle
    /\ RunIdle /\ mode \in Modes /\ concurrency = 1 /\ nports = 1 /\ has_end = FALSE
    /\ CountersNew
    /\ PktIdle
    /\ IF mode = "Download"
       THEN hwkind \in HttpKinds /\ hwdeadline \in {"none", "future"} /\ HttpIdle
       ELSE HttpAbsent
    /\ IF mode = "TcpFlood"
       THEN twK \in CapOptions /\ twdeadline \in {"none", "future"} /\ TcpIdle
       ELSE TcpAbsent
    /\ IF mode = "UdpFlood"
       THEN uK \in CapOptions /\ udeadline \in {"none", "future"} /\ UdpIdle
       ELSE UdpAbsent
    /\ PortIdle
    /\ KillIdle
    /\ RepIdle
    /\ CfgIdle
    /\ UrlIdle
    /\ ListIdle
    /\ TargetIdle
    /\ SharedIdle
    /\ JoinIdle
    /\ FloodIdle

WorkersNext ==
    \/ HttpNext
    \/ TcpNext
    \/ UdpNext
    \/ WorkersAbort
    \/ WorkersCancelled

WorkersSpec == WorkersInit /\ [][WorkersNext]_vars

(* ============== Part IX: find_next_free_port, probe by probe ========== *)

portFrame == <<supVars, runVars, cntVars, udpVars, pktVars, tcpVars, httpVars, killVars, repVars, cfgVars, urlVars, listVars, targetVars, sharedVars, joinVars, floodVars>>

\* start ports: an ordinary one, the two around the point where the window
\* of probes meets the top of the port range, and the top itself
Starts == {10808, U16Max - MaxProbes + 1, U16Max - MaxProbes + 2, U16Max}

\* an interval of ports, cut at the top of the range
Ports16(lo, hi) == [lo |-> lo, hi |-> IF hi > U16Max THEN U16Max ELSE hi]

\* loopback ports other programs hold while the probes run
Occupancies(s) ==
    { <<>>,
      <<Ports16(s, s)>>,
      <<Ports16(s + 1, s + 5)>>,
      <<Ports16(s, s + 1), Ports16(s + 3, s + 3)>>,
      <<Ports16(s, s + MaxProbes - 2)>>,
      <<Ports16(s, s + MaxProbes - 1)>>,
      <<Ports16(s, U16Max)>> }

\* TcpListener::bind(("127.0.0.1", port)) fails on a port that is held
Occupied(p, occ) == \E i \in DOMAIN occ : occ[i].lo <= p /\ p <= occ[i].hi

\* `drop(listener)` in is_port_available
ListenerDropped(held) == {}

\* variant: one probe more
ProbesLeftInclusive(k) == k <= MaxProbes

\* `for _ in 0..10_000u32`: k probes were made
ProbesLeft(k) == k < MaxProbes

\* one iteration of the loop up to the result of the bind
PortProbe ==
    /\ fppc = "probe"
    /\ IF ~ProbesLeft(fpk)
       THEN \* the loop ran out
            /\ fpresult' = None /\ fppc' = "returned"
            /\ UNCHANGED <<fpport, fpk, fpheld>>
       ELSE IF ~Occupied(fpport, fpocc)
       THEN \* Ok(listener)
            /\ fpheld' = fpheld \cup {fpport}
            /\ fppc' = "drop"
            /\ UNCHANGED <<fpport, fpk, fpresult>>
       ELSE IF fpport = U16Max
       THEN \* break
            /\ fpresult' = None /\ fppc' = "returned"
            /\ UNCHANGED <<fpport, fpk, fpheld>>
       ELSE /\ fpport' = SatAdd1(fpport)
            /\ fpk' = fpk + 1
            /\ UNCHANGED <<fppc, fpresult, fpheld>>
    /\ UNCHANGED <<fpstart, fpocc>>
    /\ UNCHANGED portFrame

\* the listener is dropped and the port returned
PortDrop ==
    /\ fppc = "drop"
    /\ fpheld' = ListenerDropped(fpheld)
    /\ fpresult' = fpport
    /\ fppc' = "returned"
    /\ UNCHANGED <<fpstart, fpocc, fpport, fpk>>
    /\ UNCHANGED portFrame

PortInit ==
    /\ SupIdle
    /\ RunIdle /\ mode = "Download" /\ concurrency = 1 /\ nports = 1 /\ has_end = FALSE
    /\ CountersNew
    /\ UdpIdle /\ uK = None /\ udeadline = "none"
    /\ PktIdle
    /\ TcpIdleNoCap
    /\ HttpIdleNoEnd
    /\ fpstart \in Starts
    /\ fpocc \in Occupancies(fpstart)
    /\ fpport = fpstart /\ fpk = 0 /\ fppc = "probe" /\ fpresult = None /\ fpheld = {}
    /\ KillIdle
    /\ RepIdle
    /\ CfgIdle
    /\ UrlIdle
    /\ ListIdle
    /\ TargetIdle
    /\ SharedIdle
    /\ JoinIdle
    /\ FloodIdle

PortNext ==
    \/ PortProbe
    \/ PortDrop

PortSpec == PortInit /\ [][PortNext]_vars

(* ============== Part X: XrayInstance::terminate, call by call ========= *)

killFrame == <<baseVars, repVars, cfgVars, urlVars, listVars, targetVars, sharedVars, joinVars, floodVars>>

\* a child of the supervisor: alive, exited but not yet reaped, or reaped
\* (its exit status is cached in the Child)
KidStates == {"running", "zombie", "reaped"}

\* process.try_wait() as is_running sees it
TryWaitResults(kid) ==
    IF kid = "reaped" THEN {"exited"}
    ELSE IF kid = "running" THEN {"running", "err"}
    ELSE {"exited", "err"}

\* a successful try_wait on an exited child reaps it
AfterTryWait(kid, r) == IF kid = "zombie" /\ r = "exited" THEN "reaped" ELSE kid

\* process.kill(): Ok, or the ErrorKind of its error
KillResults(kid) ==
    IF kid = "running" THEN {"Ok", "Other"}
    ELSE {"Ok", "NotFound", "InvalidInput", "Other"}

\* variant: every kill error counts as the shutdown race
RaceKindsAny == {"InvalidInput", "NotFound", "Other"}

\* `e.kind() == ErrorKind::InvalidInput || e.kind() == ErrorKind::NotFound`
RaceKinds == {"InvalidInput", "NotFound"}

\* the call of terminate() under way has seen nothing yet
NoCall == [poll |-> "none", kill |-> "none", wait |-> "none"]

\* terminate() returned: its outcome is counted and the loop moves on
KillReturned(status, call) ==
    /\ tkout' = Append(tkout, [status |-> status, poll |-> call.poll,
                               kill |-> call.kill, wait |-> call.wait])
    /\ tkerrors' = IF status = "Err" THEN tkerrors + 1 ELSE tkerrors
    /\ tki' = tki + 1
    /\ tkpc' = IF tki + 1 > Len(tkkids) THEN "done" ELSE "poll"
    /\ tkcur' = NoCall

\* a running child exits by itself
KillChildExits ==
    /\ tkpc # "done"
    /\ \E i \in DOMAIN tkkids :
         /\ tkkids[i] = "running"
         /\ tkkids' = [tkkids EXCEPT ![i] = "zombie"]
    /\ UNCHANGED <<tki, tkpc, tkcur, tkout, tkerrors>>
    /\ UNCHANGED killFrame

\* `if self.is_running()`, else AlreadyExited
KillPoll ==
    /\ tkpc = "poll"
    /\ \E r \in TryWaitResults(tkkids[tki]) :
         /\ tkkids' = [tkkids EXCEPT ![tki] = AfterTryWait(@, r)]
         /\ IF IsRunning(r)
            THEN /\ tkcur' = [tkcur EXCEPT !.poll = r]
                 /\ tkpc' = "kill"
                 /\ UNCHANGED <<tki, tkout, tkerrors>>
            ELSE KillReturned("AlreadyExited", [tkcur EXCEPT !.poll = r])
    /\ UNCHANGED killFrame

\* `match self.process.kill()`
KillKill ==
    /\ tkpc = "kill"
    /\ \E k \in KillResults(tkkids[tki]) :
         IF k = "Ok"
         THEN \* the signal was delivered: the child is dead, wait() comes next
              /\ tkkids' = [tkkids EXCEPT ![tki] = "zombie"]
              /\ tkcur' = [tkcur EXCEPT !.kill = k]
              /\ tkpc' = "wait"
              /\ UNCHANGED <<tki, tkout, tkerrors>>
         ELSE IF k \in RaceKinds
         THEN \* `let _ = self.process.try_wait()`, then RaceExited
              /\ \E r \in TryWaitResults(tkkids[tki]) :
                   tkkids' = [tkkids EXCEPT ![tki] = AfterTryWait(@, r)]
              /\ KillReturned("RaceExited", [tkcur EXCEPT !.kill = k])
         ELSE \* any other error is returned
              /\ UNCHANGED tkkids
              /\ KillReturned("Err", [tkcur EXCEPT !.kill = k])
    /\ UNCHANGED killFrame

\* `self.process.wait().context(..)?`, then Killed
KillWait ==
    /\ tkpc = "wait"
    /\ \/ /\ tkkids' = [tkkids EXCEPT ![tki] = "reaped"]
          /\ KillReturned("Killed", [tkcur EXCEPT !.wait = "Ok"])
       \/ /\ UNCHANGED tkkids
          /\ KillReturned("Err", [tkcur EXCEPT !.wait = "Err"])
    /\ UNCHANGED killFrame

KillInit ==
    /\ BaseIdle
    /\ tkkids \in [1..NumKids -> KidStates]
    /\ tki = 1 /\ tkpc = "poll" /\ tkcur = NoCall /\ tkout = <<>> /\ tkerrors = 0
    /\ RepIdle
    /\ CfgIdle
    /\ UrlIdle
    /\ ListIdle
    /\ TargetIdle
    /\ SharedIdle
    /\ JoinIdle
    /\ FloodIdle

KillNext ==
    \/ KillChildExits
    \/ KillPoll
    \/ KillKill
    \/ KillWait

KillSpec == KillInit /\ [][KillNext]_vars

(* ================= Part XI: the stats reporter, tick by tick ========== *)

repFrame == <<baseVars, killVars, cfgVars, urlVars, listVars, targetVars, sharedVars, joinVars, floodVars>>

\* the two reporters of the repository: the one of the multi-mode runner
\* (stressor/mod.rs) and the one of the download-only runner (stressor.rs)
ReporterKinds == {"multi_mode", "download_only"}

\* the modes a reporter of that kind can run in
ReporterModes(kind) == IF kind = "multi_mode" THEN Modes ELSE {"Download"}

\* a rate as a fraction n/d of bytes per second
Rate(n) == [n |-> n, d |-> 1]

\* `alpha * bytes_per_sec_instant + (1.0 - alpha) * prev`, seeded by the
\* first sample; ema is <<>> for None and <<fraction>> for Some
EmaStep(ema, inst) ==
    IF ema = <<>> THEN Rate(inst)
    ELSE [n |-> AlphaTenths * inst * ema[1].d + (10 - AlphaTenths) * ema[1].n,
          d |-> 10 * ema[1].d]

\* the speed a tick reports: only the download-only reporter keeps an
\* average, the multi-mode reporter prints bytes_delta / seconds in all modes
ReportedSpeed(kind, ema, inst) ==
    IF kind = "download_only" THEN EmaStep(ema, inst) ELSE Rate(inst)

\* variant: the reporter leaves its loop whenever a deadline is set
ReporterStopsEarly(end) == end # "none"

\* `if let Some(end) = end_time && Instant::now() >= end { break }`
ReporterStops(end) == end = "past"

\* the clock passes end_time
RepDeadlinePasses ==
    /\ rpend = "future"
    /\ rpend' = "past"
    /\ UNCHANGED <<rpkind, rpmode, rppc, rpbytes, rplast, rpema, rpspeed, rprates,
                   rplines, rpticks, rpafter>>
    /\ UNCHANGED repFrame

\* workers add to the byte counter
RepBytesGrow ==
    /\ rppc # "stopped"
    /\ \E delta \in 1..MaxDelta :
         /\ rpbytes + delta <= MaxBytes
         /\ rpbytes' = rpbytes + delta
    /\ UNCHANGED <<rpkind, rpmode, rpend, rppc, rplast, rpema, rpspeed, rprates,
                   rplines, rpticks, rpafter>>
    /\ UNCHANGED repFrame

\* `sleep(interval).await` is over (the interval is one second): load the
\* counter, compute the rate, log one line, remember the counter
RepTick ==
    /\ rppc = "sleep" /\ rpticks < MaxTicks
    /\ LET inst == rpbytes - rplast IN
         /\ rpema' = IF rpkind = "download_only" THEN <<EmaStep(rpema, inst)>> ELSE rpema
         /\ rpspeed' = ReportedSpeed(rpkind, rpema, inst)
         /\ rprates' = Append(rprates, inst)
    /\ rplines' = rplines + 1
    /\ rpticks' = rpticks + 1
    /\ rpafter' = IF rpend = "past" THEN rpafter + 1 ELSE rpafter
    /\ rplast' = rpbytes
    /\ rppc' = "check"
    /\ UNCHANGED <<rpkind, rpmode, rpend, rpbytes>>
    /\ UNCHANGED repFrame

\* the deadline check that ends the iteration
RepCheck ==
    /\ rppc = "check"
    /\ rppc' = IF ReporterStops(rpend) THEN "stopped" ELSE "sleep"
    /\ UNCHANGED <<rpkind, rpmode, rpend, rpbytes, rplast, rpema, rpspeed, rprates,
                   rplines, rpticks, rpafter>>
    /\ UNCHANGED repFrame

RepInit ==
    /\ BaseIdle
    /\ rpkind \in ReporterKinds
    /\ rpmode \in ReporterModes(rpkind)
    /\ rpend \in {"none", "future"}
    /\ rppc = "sleep" /\ rpbytes = 0 /\ rplast = 0 /\ rpema = <<>>
    /\ rpspeed = Rate(0) /\ rprates = <<>> /\ rplines = 0 /\ rpticks = 0 /\ rpafter = 0
    /\ KillIdle
    /\ CfgIdle
    /\ UrlIdle
    /\ ListIdle
    /\ TargetIdle
    /\ SharedIdle
    /\ JoinIdle
    /\ FloodIdle

RepNext ==
    \/ RepDeadlinePasses
    \/ RepBytesGrow
    \/ RepTick
    \/ RepCheck

RepSpec == RepInit /\ [][RepNext]_vars

(* ============== Part XII: the scratch directory of the configs ======== *)

cfgFrame == <<baseVars, killVars, repVars, urlVars, listVars, targetVars, sharedVars, joinVars, floodVars>>

\* the SOCKS ports a config file is written for
CfgPorts == 10808..(10808 + NumCfgPorts - 1)

\* variant: writing a config creates the directory when it is missing
CanWriteAlways(dir) == TRUE

\* fs::write(temp_dir/config_<port>.json) needs the directory to exist
CanWrite(dir) == dir

\* generate_config(port), from XrayInstance::new or restart
CfgGenerate ==
    /\ cgpc = "live"
    /\ \E port \in CfgPorts :
         \/ \* the file was written
            /\ CanWrite(cgdir)
            /\ cgfiles' = cgfiles \cup {port}
            /\ cgever' = cgever \cup {port}
            /\ cgdir' = TRUE
         \/ \* fs::write failed
            /\ UNCHANGED <<cgdir, cgfiles, cgever>>
    /\ UNCHANGED <<cgpc, cgres, cgvia, cgcalls>>
    /\ UNCHANGED cfgFrame

\* cleanup_all: `if self.temp_dir.exists() { fs::remove_dir_all(..)? } Ok(())`
CleanupAll(via) ==
    /\ cgcalls' = cgcalls + 1
    /\ cgvia' = via
    /\ IF cgdir
       THEN \/ \* the tree was removed
               /\ cgdir' = FALSE /\ cgfiles' = {} /\ cgres' = "Ok"
            \/ \* remove_dir_all failed, some files may be gone already
               /\ cgdir' = TRUE /\ cgfiles' \in SUBSET cgfiles /\ cgres' = "Err"
       ELSE /\ cgres' = "Ok"
            /\ UNCHANGED <<cgdir, cgfiles>>
    /\ UNCHANGED cgever

\* terminate_all: `self.config_generator.cleanup_all()`, a failure is logged
CfgTerminateAll ==
    /\ cgpc = "live" /\ cgcalls < MaxCleanups
    /\ CleanupAll("terminate_all")
    /\ UNCHANGED cgpc
    /\ UNCHANGED cfgFrame

\* Drop for ConfigGenerator: cleanup_all, a failure is logged
CfgDrop ==
    /\ cgpc = "live"
    /\ CleanupAll("drop")
    /\ cgpc' = "dropped"
    /\ UNCHANGED cfgFrame

\* ConfigGenerator::new has created the directory
CfgInit ==
    /\ BaseIdle
    /\ cgdir = TRUE /\ cgfiles = {} /\ cgever = {} /\ cgpc = "live"
    /\ cgres = "none" /\ cgvia = "none" /\ cgcalls = 0
    /\ KillIdle
    /\ RepIdle
    /\ UrlIdle
    /\ ListIdle
    /\ TargetIdle
    /\ SharedIdle
    /\ JoinIdle
    /\ FloodIdle

CfgNext ==
    \/ CfgGenerate
    \/ CfgTerminateAll
    \/ CfgDrop

CfgSpec == CfgInit /\ [][CfgNext]_vars

(* ============== Part XIII: parsing one proxy URL, its config ========== *)

urlFrame == <<baseVars, killVars, repVars, cfgVars, listVars, targetVars, sharedVars, joinVars, floodVars>>

\* Option<T>: None is <<>>, Some(v) is <<v>>
IsSome(o) == o # <<>>

\* the port texts of the URLs tried: none, the two skipped ports, the least
\* accepted one, the default, the largest u16 and the first number above it
PortTexts == {<<>>, <<0>>, <<1>>, <<2>>, <<443>>, <<U16Max>>, <<U16Max + 1>>}

\* the URLs tried, by the components the url crate splits them into; the
\* query is given by the values of the keys the parsers read
UrlTexts ==
    [form : {"url"}, scheme : {"vless", "trojan", "ss", "vmess"},
     user : {"", "id"}, password : {<<>>, <<"p">>},
     host : {<<>>, <<"h">>}, port : PortTexts,
     security : {<<>>, <<"none">>, <<"tls">>, <<"reality">>, <<"bogus">>},
     pbk : {<<>>, <<"">>, <<"key">>}, sid : {<<>>, <<"">>, <<"ab">>},
     type : {<<>>, <<"bogus">>}]

\* a text of the given form with nothing else in it
PlainText(form) ==
    [form |-> form, scheme |-> "", user |-> "", password |-> <<>>,
     host |-> <<>>, port |-> <<>>, security |-> <<>>, pbk |-> <<>>,
     sid |-> <<>>, type |-> <<>>]

\* the inputs of parse_proxy_url: URLs, the empty text, a text that is no URL
ProxyTexts == UrlTexts \cup {PlainText("empty"), PlainText("garbage")}

\* Url::parse: the text has the shape of a URL and its port fits a u16
UrlParses(u) ==
    /\ u.form = "url"
    /\ IsSome(u.port) => u.port[1] <= U16Max

\* variant: only port 0 is skipped
SkippedPortZeroOnly(port) == port = 0

\* `if port == 0 || port == 1 { return Err("skipping port") }`
SkippedPort(port) == port = 0 \/ port = 1

\* a parse or generation error
Failed(why) ==
    [ok |-> FALSE, kind |-> why, port |-> 0, security |-> "",
     public_key |-> <<>>, short_id |-> <<>>]

\* a parsed record, by the fields the claims are about
Parsed(kind, port, security, pbk, sid) ==
    [ok |-> TRUE, kind |-> kind, port |-> port, security |-> security,
     public_key |-> pbk, short_id |-> sid]

\* validate: `self.public_key.is_none()`, `self.short_id.is_none()`
RealityKeysMissing(c) == c.public_key = <<>> \/ c.short_id = <<>>

\* VlessConfig::validate on the record VlessConfig::parse built
VlessValidate(c, id, host, network) ==
    IF id = "" THEN Failed("empty id")
    ELSE IF host = "" THEN Failed("empty host")
    ELSE IF c.port = 0 THEN Failed("port 0")
    ELSE IF c.security \notin {"none", "tls", "reality"} THEN Failed("security")
    ELSE IF network \notin {"tcp", "ws", "grpc", "h2", "xhttp", "httpupgrade"}
         THEN Failed("network")
    ELSE IF c.security = "reality" /\ RealityKeysMissing(c) THEN Failed("reality")
    ELSE c

\* VlessConfig::parse followed by validate, as parse_proxy_url calls them
VlessParse(u) ==
    IF ~UrlParses(u) THEN Failed("url")
    ELSE IF u.user = "" THEN Failed("missing id")
    ELSE IF u.host = <<>> THEN Failed("missing host")
    ELSE LET port == IF IsSome(u.port) THEN u.port[1] ELSE 443
             security == IF IsSome(u.security) THEN u.security[1] ELSE "none"
             network == IF IsSome(u.type) THEN u.type[1] ELSE "tcp"
         IN  IF SkippedPort(port) THEN Failed("skipping port")
             ELSE VlessValidate(Parsed("Vless", port, security, u.pbk, u.sid),
                                u.user, u.host[1], network)

\* TrojanConfig::parse: the port is required
TrojanParse(u) ==
    IF ~UrlParses(u) THEN Failed("url")
    ELSE IF u.user = "" THEN Failed("missing password")
    ELSE IF u.host = <<>> THEN Failed("missing host")
    ELSE IF u.port = <<>> THEN Failed("missing port")
    ELSE IF SkippedPort(u.port[1]) THEN Failed("skipping port")
    ELSE Parsed("Trojan", u.port[1],
                IF IsSome(u.security) THEN u.security[1] ELSE "none", <<>>, <<>>)

\* ShadowsocksConfig::parse: userinfo must decode to method:password
ShadowsocksParse(u) ==
    IF ~UrlParses(u) THEN Failed("url")
    ELSE IF u.user = "" /\ u.password = <<>> THEN Failed("missing userinfo")
    ELSE IF u.password = <<>> THEN Failed("method:password")
    ELSE IF u.host = <<>> THEN Failed("missing host")
    ELSE IF u.port = <<>> THEN Failed("missing port")
    ELSE IF SkippedPort(u.port[1]) THEN Failed("skipping port")
    ELSE Parsed("Shadowsocks", u.port[1], "none", <<>>, <<>>)

\* parse_proxy_url on the trimmed text
ParseProxyUrl(u) ==
    IF u.form = "empty" THEN Failed("empty proxy url")
    ELSE IF ~UrlParses(u) THEN Failed("url")
    ELSE IF u.scheme = "vless" THEN VlessParse(u)
    ELSE IF u.scheme = "trojan" THEN TrojanParse(u)
    ELSE IF u.scheme = "ss" THEN ShadowsocksParse(u)
    ELSE Failed("unsupported proxy type")

\* no config was generated
NoConfig == [ok |-> FALSE, reality |-> <<>>]

\* build_vless_trojan_stream_settings, by its realitySettings
BuildStreamSettings(c) ==
    IF c.kind = "Shadowsocks" THEN [ok |-> TRUE, reality |-> <<>>]
    ELSE IF c.security \in {"tls", "none"} THEN [ok |-> TRUE, reality |-> <<>>]
    ELSE IF c.security = "reality"
         THEN IF c.kind = "Vless" /\ IsSome(c.public_key) /\ IsSome(c.short_id)
              THEN [ok |-> TRUE,
                    reality |-> <<[publicKey |-> c.public_key[1],
                                   shortId |-> c.short_id[1]]>>]
              ELSE NoConfig
    ELSE NoConfig

\* parse_proxy_url(text)
UrlParse ==
    /\ pupc = "input"
    /\ pures' = ParseProxyUrl(puurl)
    /\ pupc' = "parsed"
    /\ UNCHANGED <<puurl, pucfg>>
    /\ UNCHANGED urlFrame

\* build_xray_config for the parsed record
UrlGenerate ==
    /\ pupc = "parsed" /\ pures.ok
    /\ pucfg' = BuildStreamSettings(pures)
    /\ pupc' = "generated"
    /\ UNCHANGED <<puurl, pures>>
    /\ UNCHANGED urlFrame

\* any of the texts is about to be parsed
UrlInit ==
    /\ BaseIdle
    /\ puurl \in ProxyTexts /\ pupc = "input"
    /\ pures = Failed("none") /\ pucfg = NoConfig
    /\ KillIdle
    /\ RepIdle
    /\ CfgIdle
    /\ ListIdle
    /\ TargetIdle
    /\ SharedIdle
    /\ JoinIdle
    /\ FloodIdle

UrlNext == UrlParse \/ UrlGenerate

UrlSpec == UrlInit /\ [][UrlNext]_vars

(* ============== Part XIV: parsing a list of proxy URLs ================ *)

listFrame == <<baseVars, killVars, repVars, cfgVars, urlVars, targetVars, sharedVars, joinVars, floodVars>>

\* a URL with the given scheme and port and nothing wrong otherwise
GoodUrl(scheme, port) ==
    [form |-> "url", scheme |-> scheme, user |-> "id", password |-> <<"p">>,
     host |-> <<"h">>, port |-> <<port>>, security |-> <<>>, pbk |-> <<>>,
     sid |-> <<>>, type |-> <<>>]

\* the URLs of the lists tried: two that parse and one with a skipped port
ListUrls == {GoodUrl("vless", 443), GoodUrl("trojan", 2), GoodUrl("ss", 1)}

\* the pieces a line is made of besides a URL: white space and '#'
Space == PlainText("space")
Hash == PlainText("hash")

\* the lines tried: blank ones, comments (indented or not, also a URL that
\* is commented out) and URLs with and without white space around them
Lines ==
    {<<>>, <<Space>>, <<Hash>>, <<Space, Hash, GoodUrl("vless", 443)>>}
      \cup {<<u>> : u \in ListUrls}
      \cup {<<Space, u, Space>> : u \in ListUrls}

\* the contents tried, as content.lines() yields them
Contents == UNION {[1..n -> Lines] : n \in 0..MaxLines}

\* str::trim: the line without its leading and trailing white space
Trim(line) ==
    LET inked == {i \in 1..Len(line) : line[i] # Space}
    IN  IF inked = {} THEN <<>>
        ELSE SubSeq(line, CHOOSE i \in inked : \A j \in inked : i <= j,
                          CHOOSE i \in inked : \A j \in inked : j <= i)

\* `line.is_empty() || line.starts_with('#')` on the trimmed line
SkippedLine(line) == line = <<>> \/ line[1] = Hash

\* parse_proxy_url(line): it trims again; what is left here is one URL
ParseLine(line) ==
    IF Trim(line) = <<>> THEN Failed("empty proxy url")
    ELSE ParseProxyUrl(Trim(line)[1])

\* variant: a line that fails to parse discards what was collected
AfterLineOrReset(configs, r) == IF r.ok THEN Append(configs, r) ELSE <<>>

\* `Ok(cfg) => configs.push(cfg), Err(e) => log::warn!(..)`
AfterLine(configs, r) == IF r.ok THEN Append(configs, r) ELSE configs

\* one iteration of `for (line_num, line) in content.lines().enumerate()`
ListLine ==
    /\ plpc = "loop" /\ pli <= Len(pllines)
    /\ LET line == Trim(pllines[pli])
       IN  plconfigs' = IF SkippedLine(line) THEN plconfigs
                        ELSE AfterLine(plconfigs, ParseLine(line))
    /\ pli' = pli + 1
    /\ UNCHANGED <<pllines, plpc, plres>>
    /\ UNCHANGED listFrame

\* after the loop: Err when nothing was collected, Ok(configs) otherwise
ListReturn ==
    /\ plpc = "loop" /\ pli > Len(pllines)
    /\ plres' = IF plconfigs = <<>> THEN "Err" ELSE "Ok"
    /\ plpc' = "returned"
    /\ UNCHANGED <<pllines, pli, plconfigs>>
    /\ UNCHANGED listFrame

\* parse_proxy_list is entered with any of the contents
ListInit ==
    /\ BaseIdle
    /\ pllines \in Contents /\ pli = 1 /\ plconfigs = <<>>
    /\ plpc = "loop" /\ plres = "none"
    /\ KillIdle
    /\ RepIdle
    /\ CfgIdle
    /\ UrlIdle
    /\ TargetIdle
    /\ SharedIdle
    /\ JoinIdle
    /\ FloodIdle

ListNext == ListLine \/ ListReturn

ListSpec == ListInit /\ [][ListNext]_vars

(* ============== Part XV: the --targets list of the flood modes ======== *)

targetFrame == <<baseVars, killVars, repVars, cfgVars, urlVars, listVars, sharedVars, joinVars, floodVars>>

\* the decimal digits, a digit's value is its index less one
Digits == <<"0", "1", "2", "3", "4", "5", "6", "7", "8", "9">>

IsDigit(c) == \E i \in 1..10 : Digits[i] = c

DigitVal(c) == (CHOOSE i \in 1..10 : Digits[i] = c) - 1

RECURSIVE DecimalValue(_)
\* the number a non-empty string of digits denotes
DecimalValue(s) ==
    IF Len(s) = 1 THEN DigitVal(s[1])
    ELSE 10 * DecimalValue(SubSeq(s, 1, Len(s) - 1)) + DigitVal(s[Len(s)])

\* str::parse::<u16>: digits after an optional '+', at most 65535; None
\* stands for the error
ParseU16(s) ==
    LET digits == IF s # <<>> /\ s[1] = "+" THEN Tail(s) ELSE s
    IN  IF digits = <<>> \/ \E i \in 1..Len(digits) : ~IsDigit(digits[i])
        THEN None
        ELSE IF DecimalValue(digits) > U16Max THEN None
             ELSE DecimalValue(digits)

\* the positions of the character c in s
Positions(s, c) == {i \in 1..Len(s) : s[i] = c}

SetMin(S) == CHOOSE i \in S : \A j \in S : i <= j

SetMax(S) == CHOOSE i \in S : \A j \in S : j <= i

\* str::trim on a string of characters
TrimStr(s) ==
    LET inked == {i \in 1..Len(s) : s[i] # " "}
    IN  IF inked = {} THEN <<>> ELSE SubSeq(s, SetMin(inked), SetMax(inked))

RECURSIVE SplitCommas(_)
\* raw.split(','): the pieces between the commas, empty ones included
SplitCommas(s) ==
    IF Positions(s, ",") = {} THEN <<s>>
    ELSE LET k == SetMin(Positions(s, ","))
         IN  <<SubSeq(s, 1, k - 1)>> \o SplitCommas(SubSeq(s, k + 1, Len(s)))

\* a rejected token
NoTarget == [ok |-> FALSE, host |-> <<>>, port |-> 0]

\* host and port text of a token are known: the rest of parse_socket_target
SocketTargetOf(host, port_str) ==
    IF host = <<>> THEN NoTarget
    ELSE IF ParseU16(port_str) = None THEN NoTarget
    ELSE [ok |-> TRUE, host |-> host, port |-> ParseU16(port_str)]

\* parse_socket_target(token)
ParseSocketTarget(token) ==
    IF token # <<>> /\ token[1] = "["
    THEN IF Positions(token, "]") = {} THEN NoTarget
         ELSE LET closing == SetMin(Positions(token, "]"))
                  rest == SubSeq(token, closing + 1, Len(token))
              IN  IF rest = <<>> \/ rest[1] # ":" THEN NoTarget
                  ELSE SocketTargetOf(SubSeq(token, 2, closing - 1), Tail(rest))
    ELSE IF Positions(token, ":") # {}
         THEN LET k == SetMax(Positions(token, ":"))
              IN  SocketTargetOf(SubSeq(token, 1, k - 1),
                                 SubSeq(token, k + 1, Len(token)))
    ELSE NoTarget

\* the chunks the lists tried are made of
Chunks ==
    { <<"h", ":", "8", "0">>, <<"h", ":", "0">>, <<"h", ":", "0", "0">>,
      <<"h", ":", "6", "5", "5", "3", "5">>, <<"h", ":", "6", "5", "5", "3", "6">>,
      <<"h", ":", "+", "1">>, <<"h", ":", "8", "h">>,
      <<"h">>, <<":", "8", "0">>, <<"h", ":">>, <<"h", ":", "h", ":", "8", "0">>,
      <<"[", "h", "]", ":", "8", "0">>, <<"[", ":", ":", "1", "]", ":", "1">>,
      <<"[", "]", ":", "8", "0">>, <<"[", "h", "]", "8", "0">>,
      <<"[", "h", "]">>, <<"[", "h", ":", "8", "0">>,
      <<"[", "h", "]", ":", "0">>, <<"[", "h", "]", ":", "8", ":", "0">>,
      <<>>, <<" ">>, <<" ", "h", ":", "8", "0", " ">> }

RECURSIVE JoinCommas(_)
\* the chunks written one after the other with commas between them
JoinCommas(chunks) ==
    IF Len(chunks) = 1 THEN chunks[1]
    ELSE chunks[1] \o <<",">> \o JoinCommas(Tail(chunks))

\* the values of --targets tried
RawTargets == {JoinCommas(c) : c \in UNION {[1..n -> Chunks] : n \in 1..MaxTokens}}

\* one iteration of `for chunk in raw.split(',')`: an empty token is passed
\* over, a token that fails to parse returns the error (`?`), any other is
\* pushed
TargetChunk ==
    /\ tgpc = "loop" /\ tgi <= Len(SplitCommas(tgraw))
    /\ LET token == TrimStr(SplitCommas(tgraw)[tgi])
       IN  IF token = <<>>
           THEN UNCHANGED <<tgtargets, tgpc, tgres>>
           ELSE IF ParseSocketTarget(token).ok
                THEN /\ tgtargets' = Append(tgtargets, ParseSocketTarget(token))
                     /\ UNCHANGED <<tgpc, tgres>>
                ELSE /\ tgpc' = "returned" /\ tgres' = "Err"
                     /\ UNCHANGED tgtargets
    /\ tgi' = tgi + 1
    /\ UNCHANGED <<tgraw, tgmode>>
    /\ UNCHANGED targetFrame

\* after the loop: Err when no target was parsed, Ok(targets) otherwise
TargetReturn ==
    /\ tgpc = "loop" /\ tgi > Len(SplitCommas(tgraw))
    /\ tgres' = IF tgtargets = <<>> THEN "Err" ELSE "Ok"
    /\ tgpc' = "returned"
    /\ UNCHANGED <<tgraw, tgmode, tgi, tgtargets>>
    /\ UNCHANGED targetFrame

\* parse_target_list(raw, mode) is entered in one of the flood modes
TargetInit ==
    /\ BaseIdle
    /\ tgraw \in RawTargets /\ tgmode \in {"TcpFlood", "UdpFlood"}
    /\ tgi = 1 /\ tgtargets = <<>> /\ tgpc = "loop" /\ tgres = "none"
    /\ KillIdle
    /\ RepIdle
    /\ CfgIdle
    /\ UrlIdle
    /\ ListIdle
    /\ SharedIdle
    /\ JoinIdle
    /\ FloodIdle

TargetNext == TargetChunk \/ TargetReturn

TargetSpec == TargetInit /\ [][TargetNext]_vars

(* ============== Part XVI: two processes and the scratch directory ===== *)

sharedFrame == <<baseVars, killVars, repVars, cfgVars, urlVars, listVars, targetVars, joinVars, floodVars>>

\* the processes of the program that run at the same time
Procs == 1..NumProcs

\* the SOCKS ports process p writes configs for: its children hold their
\* ports, so another process probes past them
PortsOfProc(p) ==
    {10808 + (p - 1) * MaxProcPorts + k : k \in 0..(MaxProcPorts - 1)}

\* ConfigGenerator::new in process p: temp_dir().join("herscat_configs"),
\* the same path in every process, and create_dir_all
SharedNew(p) ==
    /\ xpc[p] = "none"
    /\ xdir' = TRUE
    /\ xpc' = [xpc EXCEPT ![p] = "live"]
    /\ UNCHANGED <<xfiles, xwritten>>
    /\ UNCHANGED sharedFrame

\* generate_config(port) in process p, from XrayInstance::new or restart
SharedGenerate(p) ==
    /\ xpc[p] = "live"
    /\ \E port \in PortsOfProc(p) :
         \/ \* the file was written and a child is run with it
            /\ CanWrite(xdir)
            /\ xfiles' = xfiles \cup {port}
            /\ xwritten' = [xwritten EXCEPT ![p] = @ \cup {port}]
         \/ \* fs::write failed: no instance for that port
            /\ UNCHANGED <<xfiles, xwritten>>
    /\ UNCHANGED <<xdir, xpc>>
    /\ UNCHANGED sharedFrame

\* the shutdown of process p: its children are terminated, then cleanup_all
\* (by terminate_all, and again by the drop of the generator)
SharedCleanup(p) ==
    /\ xpc[p] = "live"
    /\ IF xdir
       THEN \/ \* remove_dir_all removed the tree
               /\ xdir' = FALSE /\ xfiles' = {}
            \/ \* remove_dir_all failed, some files may be gone already
               /\ xdir' = TRUE /\ xfiles' \in SUBSET xfiles
       ELSE UNCHANGED <<xdir, xfiles>>
    /\ xwritten' = [xwritten EXCEPT ![p] = {}]
    /\ xpc' = [xpc EXCEPT ![p] = "done"]
    /\ UNCHANGED sharedFrame

\* no process has been started
SharedInit ==
    /\ BaseIdle
    /\ xdir \in BOOLEAN /\ xfiles = {}
    /\ xwritten = [p \in Procs |-> {}]
    /\ xpc = [p \in Procs |-> "none"]
    /\ KillIdle
    /\ RepIdle
    /\ CfgIdle
    /\ UrlIdle
    /\ ListIdle
    /\ TargetIdle
    /\ JoinIdle
    /\ FloodIdle

SharedNext ==
    \E p \in Procs : SharedNew(p) \/ SharedGenerate(p) \/ SharedCleanup(p)

SharedSpec == SharedInit /\ [][SharedNext]_vars

(* ============== Part XVII: the tasks that are left when run() returns = *)

joinFrame == <<baseVars, killVars, repVars, cfgVars, urlVars, listVars, targetVars, sharedVars, floodVars>>

\* the two runners of the repository: stressor/mod.rs and stressor.rs
RunnerKinds == {"multi_mode", "download_only"}

\* join_all(handles).await is over: the worker task has ended
Joined(pc) == pc \in {"finished", "cancelled"}

\* the clock: end_time is far, less than 100 ms away, or reached
JoinClock ==
    /\ jrun # "returned"
    /\ \/ jdeadline = "future" /\ jdeadline' = "near"
       \/ jdeadline = "near" /\ jdeadline' = "past"
    /\ UNCHANGED <<jkind, jwpc, jdl, jcount, jrun, jprinted>>
    /\ UNCHANGED joinFrame

\* head of a worker loop: the deadline check; the multi-mode worker then
\* awaits its own request, the download-only worker spawns
\* params.concurrency download_once tasks with tokio::spawn
JoinTop ==
    /\ jwpc = "top"
    /\ IF EndTimeReached(jdeadline)
       THEN jwpc' = "finished" /\ UNCHANGED jdl
       ELSE IF jkind = "multi_mode"
            THEN jwpc' = "request" /\ UNCHANGED jdl
            ELSE /\ jdl + MaxDownloads <= 2 * MaxDownloads
                 /\ jdl' = jdl + MaxDownloads
                 /\ jwpc' = "spawned"
    /\ UNCHANGED <<jkind, jdeadline, jcount, jrun, jprinted>>
    /\ UNCHANGED joinFrame

\* multi-mode worker: its request is over, the counters are updated by the
\* worker task itself
JoinRequest ==
    /\ jwpc = "request" /\ jcount < MaxCount
    /\ jcount' = jcount + 1
    /\ jwpc' = "top"
    /\ UNCHANGED <<jkind, jdeadline, jdl, jrun, jprinted>>
    /\ UNCHANGED joinFrame

\* download-only worker after the spawns: with less than 100 ms left it
\* joins every download and leaves the loop, else it waits for them no
\* longer than the time left
JoinTimeLeft ==
    /\ jwpc = "spawned"
    /\ jwpc' = IF jdeadline = "future" THEN "timeout" ELSE "join_all"
    /\ UNCHANGED <<jkind, jdeadline, jdl, jcount, jrun, jprinted>>
    /\ UNCHANGED joinFrame

\* `let _ = join_all(download_handles).await; break;`
JoinAllDownloads ==
    /\ jwpc = "join_all" /\ jdl = 0
    /\ jwpc' = "finished"
    /\ UNCHANGED <<jkind, jdeadline, jdl, jcount, jrun, jprinted>>
    /\ UNCHANGED joinFrame

\* `let _ = tokio::time::timeout(time_left, join_all(download_handles)).await`:
\* over when the downloads are, or when the time is; the JoinHandles are
\* dropped, which detaches the tasks; then the jitter sleep
JoinTimeout ==
    /\ jwpc = "timeout"
    /\ jdl = 0 \/ jdeadline = "past"
    /\ jwpc' = "top"
    /\ UNCHANGED <<jkind, jdeadline, jdl, jcount, jrun, jprinted>>
    /\ UNCHANGED joinFrame

\* a download_once task ends: it has updated the counters
JoinDownloadOnce ==
    /\ jdl > 0 /\ jcount < MaxCount
    /\ jdl' = jdl - 1
    /\ jcount' = jcount + 1
    /\ UNCHANGED <<jkind, jdeadline, jwpc, jrun, jprinted>>
    /\ UNCHANGED joinFrame

\* supervise_workers after the sleep until end_time: `handle.abort()`
JoinAbort ==
    /\ jkind = "multi_mode" /\ jrun = "running" /\ jdeadline = "past"
    /\ jrun' = "aborted"
    /\ UNCHANGED <<jkind, jdeadline, jwpc, jdl, jcount, jprinted>>
    /\ UNCHANGED joinFrame

\* the aborted worker is dropped at its await
JoinCancelled ==
    /\ jrun = "aborted" /\ jwpc = "request"
    /\ jwpc' = "cancelled"
    /\ UNCHANGED <<jkind, jdeadline, jdl, jcount, jrun, jprinted>>
    /\ UNCHANGED joinFrame

\* join_all(handles).await of run() is over and run() returns Ok(())
JoinReturn ==
    /\ jrun # "returned"
    /\ jkind = "multi_mode" => jrun = "aborted"
    /\ Joined(jwpc)
    /\ jrun' = "returned"
    /\ UNCHANGED <<jkind, jdeadline, jwpc, jdl, jcount, jprinted>>
    /\ UNCHANGED joinFrame

\* main: print_stats(&stress_runner) after run()
JoinPrintStats ==
    /\ jrun = "returned" /\ jprinted = None
    /\ jprinted' = jcount
    /\ UNCHANGED <<jkind, jdeadline, jwpc, jdl, jcount, jrun>>
    /\ UNCHANGED joinFrame

\* run() of either runner has spawned its worker, a duration is set
JoinInit ==
    /\ BaseIdle
    /\ jkind \in RunnerKinds /\ jdeadline = "future" /\ jwpc = "top"
    /\ jdl = 0 /\ jcount = 0 /\ jrun = "running" /\ jprinted = None
    /\ KillIdle
    /\ RepIdle
    /\ CfgIdle
    /\ UrlIdle
    /\ ListIdle
    /\ TargetIdle
    /\ SharedIdle
    /\ FloodIdle

JoinNext ==
    \/ JoinClock
    \/ JoinTop
    \/ JoinRequest
    \/ JoinTimeLeft
    \/ JoinAllDownloads
    \/ JoinTimeout
    \/ JoinDownloadOnce
    \/ JoinAbort
    \/ JoinCancelled
    \/ JoinReturn
    \/ JoinPrintStats

JoinSpec == JoinInit /\ [][JoinNext]_vars

(* ============== Part XVIII: the counters of the flood workers ========= *)

floodFrame == <<baseVars, killVars, repVars, cfgVars, urlVars, listVars, targetVars, sharedVars, joinVars>>

\* variant: an aborted task is dropped in the middle of a function
AbortPointAnywhere(pc) == TRUE

\* a task is dropped only at an `.await`; record_packet has none, so the
\* worker is outside of it
AbortPoint(pc) == pc = "idle"

\* write_all / send_to returned Ok: record_packet(params.payload.len()),
\* its first statement
FloodRecordPacket(w) ==
    /\ fwst[w] = "running"
    /\ RecordPacketSuccess(w)
    /\ clen'[w] = flen

\* the second and third statement of record_packet
FloodRecordRest(w) ==
    /\ fwst[w] = "running"
    /\ RecordPacketCount(w) \/ RecordPacketBytes(w)

\* a failed connect, association or send: record_failure
FloodRecordFailure(w) ==
    /\ fwst[w] = "running"
    /\ RecordFailure(w)

\* the worker returns at its deadline check
FloodFinish(w) ==
    /\ fwst[w] = "running" /\ cpc[w] = "idle"
    /\ fwst' = [fwst EXCEPT ![w] = "finished"]
    /\ UNCHANGED flen
    /\ UNCHANGED floodFrame

\* supervise_workers aborted the worker: it is dropped at an await
FloodAbort(w) ==
    /\ fwst[w] = "running" /\ AbortPoint(cpc[w])
    /\ fwst' = [fwst EXCEPT ![w] = "cancelled"]
    /\ UNCHANGED flen
    /\ UNCHANGED floodFrame

\* flood workers with a payload of any length have been spawned
FloodInit ==
    /\ BaseIdle
    /\ flen \in 1..MaxPayload
    /\ fwst = [w \in CallerIds |-> "running"]
    /\ KillIdle
    /\ RepIdle
    /\ CfgIdle
    /\ UrlIdle
    /\ ListIdle
    /\ TargetIdle
    /\ SharedIdle
    /\ JoinIdle

FloodNext ==
    \E w \in CallerIds :
       \/ FloodRecordPacket(w)
       \/ FloodRecordRest(w)
       \/ FloodRecordFailure(w)
       \/ FloodFinish(w)
       \/ FloodAbort(w)

FloodSpec == FloodInit /\ [][FloodNext]_vars

(* ============================== claims ================================ *)

InstancePorts == {instances[k].port : k \in 1..Len(instances)}
PortsOf(insts) == [k \in 1..Len(insts) |-> insts[k].port]
JustStarted == mainPc \in {"monitor_start", "failed"}

\* C1: start_instances returns an error exactly when no instance passed its
\* post-spawn check; every one of the n instances is attempted (the loop ends
\* early only when no free port is left), whatever happened to the earlier
\* ones; and on success the returned ports are the ports of the instances
\* added to the set, in the same order.
C1_StartInstances ==
    JustStarted =>
        /\ (startResult = "Err") <=> (instances = <<>>)
        /\ startResult \in {"Ok", "Err"}
        /\ startResult = "Ok" => ports = PortsOf(instances)
        /\ \/ si = NumInstances
           \/ \E bound \in SUBSET InstancePorts :
                FindNextFreePort(probe_port, busy \cup bound) = None

\* C1 witness: the call succeeded although an earlier instance had failed:
\* the only instance of the set is a later one
C1_Witness ==
    /\ JustStarted /\ startResult = "Ok" /\ si = NumInstances
    /\ Len(instances) = 1 /\ instances[1].rec # 0

\* C2: terminate_all returns Ok whatever the per-child outcomes were; it has
\* called terminate() on every instance of the set, the set is empty, and
\* cleanup_all was invoked after the set was emptied (its failure is not
\* returned either).
C2_TerminateAllOk ==
    \A c \in Callers :
        tpc[c] = "done" =>
            /\ tres[c] = "Ok"
            /\ tcount[c] = tseen[c]
            /\ instances = <<>>
            /\ tcleanup[c] = "after_clear"

\* C2 witness: a call over two instances returned after a child failure and
\* a failed cleanup (the directory is still there)
C2_Witness ==
    \E c \in Callers :
        /\ tpc[c] = "done" /\ tres[c] = "Ok"
        /\ terrs[c] /\ tseen[c] = NumInstances /\ dirExists

\* C3 (as claimed): a replacement child is spawned only when the most recent
\* poll of the current child returned an exit status.
C3_RespawnOnlyAfterExitStatus ==
    Spawned(mres[2]) => mres[3] = "exited"

RestartFailures == {"config_err", "spawn_err", "exited", "poll_err"}
Crashed(i) ==
    Alive /\ monPc # "off" /\ i <= Len(instances) /\ instances[i].st = "exited"
RunningOnOwnPort(i) ==
    /\ i <= Len(instances) /\ instances[i].st = "running"
    /\ i <= Len(ports) /\ instances[i].port = ports[i]
RestartFailedWith(i, kinds) == mres[1] = i /\ mres[2] \in kinds
SetGone == ~Alive \/ instances = <<>>

C5_GoneIsTerminal == ~goneSpawn

\* C5 witness: the monitor holds the mutex for a sweep after a terminate_all
\* has returned
C5_Witness ==
    /\ TerminateReturned /\ Alive
    /\ lock = "monitor" /\ monPc = "check" /\ tseen["sigint"] = NumInstances

SigintDelivered == hpc \in {"print", "term", "exit"}

\* C6 (as claimed): after SIGINT the Ctrl+C task runs terminate_all to
\* completion and exits the process itself.
C6_AsClaimed == SigintDelivered ~> (hpc = "exit" /\ tres["sigint"] = "Ok")

\* C6 (amended): after SIGINT the process eventually exits with code 0 after
\* a terminate_all has run to completion (the one of the Ctrl+C task, or the
\* one of the main task when the run ends at the same time), workers blocked
\* or not, deadline or not.
C6_SigintExits ==
    SigintDelivered ~>
        /\ exitCode = 0
        /\ instances = <<>>
        /\ \E c \in Callers : tres[c] = "Ok"

\* C6 witness: the Ctrl+C task has exited the process while every worker was
\* blocked and no deadline was set
C6_Witness ==
    /\ hpc = "exit" /\ exitCode = 0 /\ wstate = "blocked" /\ ~deadline
    /\ tseen["sigint"] = NumInstances

\* run() is inside supervise_workers with at least one handle
Supervising == dpc \in {"sleep", "join"} /\ NumHandles >= 1

\* C7: with a deadline set and at least one worker spawned, run() eventually
\* returns Ok: the handles are aborted at the deadline and then joined, and
\* cancelled workers do not turn the result into Err.
C7_RunReturnsOk ==
    (has_end /\ Supervising) ~> (dpc = "returned" /\ runResult = "Ok")

\* run() has returned Ok with some workers cancelled by the abort and some
\* that left their loop at the deadline check
C7_Witness ==
    /\ has_end /\ dpc = "returned" /\ runResult = "Ok"
    /\ aborted
    /\ wcnt["cancelled"] > 0 /\ wcnt["finished"] > 0

ClaimedShare(idx, c, n) == (c \div n) + (IF idx < c % n THEN 1 ELSE 0)

\* C9: in download mode endpoint i is given floor(c/n) workers plus one if
\* i < c mod n, and the shares add up to the configured concurrency.
C9_DownloadSplit ==
    (mode = "Download" /\ dpc # "idle") =>
        /\ \A i \in 1..nports : spawned[i] = ClaimedShare(i - 1, concurrency, nports)
        /\ NumHandles = concurrency

\* C10: none of the four counters ever decreases, whatever the interleaving
\* of the recording callers, the reporter and snapshots.
C10_CountersMonotone ==
    [][\A n \in CounterNames : counters'[n] >= counters[n]]_vars

\* every counter has been advanced, one record_packet is half-way, and the
\* reporter and a snapshot have read the counters in between
C10_Witness ==
    /\ \A n \in CounterNames : counters[n] > 0
    /\ \E w \in CallerIds : cpc[w] = "bytes"
    /\ last_packets > 0
    /\ snap["failure_events"] > 0

\* every record_* call that was begun has completed
AllCallsCompleted == \A w \in CallerIds : cpc[w] = "idle"

\* C11: once all calls have completed, success_events is the number of
\* record_success plus record_packet calls, failure_events the number of
\* record_failure calls, packets_sent the number of record_packet calls and
\* bytes_transferred the sum of all byte arguments, for every interleaving.
C11_NoLostUpdates ==
    AllCallsCompleted =>
        /\ counters["success_events"] = calls["record_success"] + calls["record_packet"]
        /\ counters["failure_events"] = calls["record_failure"]
        /\ counters["packets_sent"] = calls["record_packet"]
        /\ counters["bytes_transferred"] = calls["bytes_args"]

\* two record_packet calls and a record_failure have completed
C11_Witness ==
    /\ AllCallsCompleted
    /\ calls["record_packet"] >= 2 /\ calls["record_failure"] >= 1
    /\ counters["bytes_transferred"] >= 2 * MaxPayload

\* the worker is inside UdpAssociation::connect
Establishing ==
    upc \in {"connect", "greet_send", "greet_read", "assoc_send", "hdr_read",
             "addr_read", "bind"}

\* log is the exchange: greeting 05 01 00 written, 05 00 read, the
\* UDP-ASSOCIATE request written, a header with REP = 0 and ATYP 1 or 4 read,
\* the address of that type and the port read, the UDP socket bound
CompleteEstablishment(log) ==
    /\ Len(log) = 7
    /\ log[1] = <<"tx", <<5, 1, 0>>>>
    /\ log[2] = <<"rx", <<5, 0>>>>
    /\ log[3] = <<"tx", AssociateRequest>>
    /\ log[4][1] = "rx" /\ Len(log[4][2]) = 4
    /\ log[4][2][2] = 0 /\ log[4][2][4] \in {1, 4}
    /\ log[5][1] = "rx" /\ Len(log[5][2]) = (IF log[4][2][4] = 1 THEN 4 ELSE 16)
    /\ log[6][1] = "rx" /\ Len(log[6][2]) = 2
    /\ log[7][1] = "bind"

\* C12: an association is held only after the complete exchange succeeded
\* on the open control stream; an establishment that ends in any other way
\* leaves no association, sends no datagram, records exactly one failure and
\* goes to the 250 ms back-off, after which the loop starts over.
C12_AssociationNeedsFullExchange ==
    /\ [](uassoc => (ustream # 0 /\ CompleteEstablishment(ulog)))
    /\ [][(Establishing /\ upc' \notin {upc, "greet_send", "greet_read", "assoc_send",
                                          "hdr_read", "addr_read", "bind"}) =>
             IF CompleteEstablishment(ulog')
             THEN uassoc' /\ upc' = "send" /\ ufailures' = ufailures
             ELSE /\ ~uassoc' /\ ustream' = 0
                  /\ upc' = "backoff250"
                  /\ ufailures' = ufailures + 1
                  /\ udgrams' = udgrams]_vars
    /\ [][(upc = "backoff250" /\ upc' # upc) =>
             (upc' = "top" /\ udgrams' = udgrams /\ ufailures' = ufailures)]_vars

\* an association over an IPv6 relay address is held on the third control
\* stream, after two establishments that failed
C12_Witness ==
    /\ uassoc /\ upc = "send" /\ uconns = 3 /\ ufailures = 2
    /\ ulog[4][2][4] = 4

\* C13: whenever a datagram is sent, the association is held and the control
\* stream on which its relay address was obtained is still open; a held
\* association always has its control stream open.
C13_ControlStreamHeld ==
    /\ []((uassoc \/ upc = "send") => (uassoc /\ ustream # 0 /\ urelay = ustream))
    /\ [][udgrams' > udgrams => (uassoc /\ ustream # 0 /\ urelay = ustream)]_vars

\* a datagram is about to be sent on the second association of the worker,
\* the first having been dropped after a send error
C13_Witness ==
    /\ upc = "send" /\ uconns = 2 /\ ustream = 2 /\ urelay = 2
    /\ udgrams >= 1 /\ ufailures = 1

\* C15: with a cap K >= 1 no association carries more than K datagrams; the
\* K-th datagram drops the association without a failure; a send error
\* records exactly one failure and drops the association after the 200 ms
\* back-off; every datagram goes out on the latest control stream, after a
\* complete establishment on it.
C15_CapAndSendError ==
    /\ [](uK >= 1 => ucarried <= uK)
    /\ [][udgrams' > udgrams =>
             /\ ustream = uconns /\ urelay = uconns /\ CompleteEstablishment(ulog)
             /\ ufailures' = ufailures
             /\ (uK >= 1 /\ ucarried' = uK) => (~uassoc' /\ ustream' = 0)]_vars
    /\ [][(upc = "send" /\ upc' = "backoff200") =>
             (ufailures' = ufailures + 1 /\ udgrams' = udgrams)]_vars
    /\ [][(upc = "backoff200" /\ upc' # upc) =>
             (~uassoc' /\ ustream' = 0 /\ upc' = "top")]_vars

\* cap 2: two datagrams on the first association, the third one on a second
C15_Witness ==
    /\ uK = 2 /\ udgrams = 3 /\ uconns = 2 /\ ucarried = 1 /\ ufailures = 0

\* the address part a packet must carry for host h: its ATYP and bytes
AddressOf(h) ==
    IF h.ip[1] = "v4" THEN [atyp |-> 1, bytes |-> h.ip[2]]
    ELSE IF h.ip[1] = "v6" THEN [atyp |-> 4, bytes |-> h.ip[2]]
    ELSE [atyp |-> 3, bytes |-> <<Len(h.text)>> \o h.text]

\* C14: a datagram that build_udp_packet returns is 00 00 00 ATYP, the
\* address (4 bytes for an IPv4 literal, 16 for an IPv6 literal, else a length
\* byte and the host bytes), the port as two big-endian bytes and then exactly
\* the payload; a host that is no IP literal and longer than 255 bytes gives
\* an error and no datagram, and nothing else does.
C14_PacketLayout ==
    built =>
        LET a == AddressOf(target.host)
            n == Len(a.bytes)
            b == packet.bytes IN
        IF target.host.ip[1] = "none" /\ Len(target.host.text) > 255
        THEN ~packet.ok /\ b = <<>>
        ELSE /\ packet.ok
             /\ Len(b) = 4 + n + 2 + Len(payload)
             /\ SubSeq(b, 1, 4) = <<0, 0, 0, a.atyp>>
             /\ SubSeq(b, 5, 4 + n) = a.bytes
             /\ b[4 + n + 1] * 256 + b[4 + n + 2] = target.port
             /\ \A k \in 1..Len(b) : b[k] \in 0..255
             /\ SubSeq(b, 4 + n + 3, Len(b)) = payload

\* a packet for a 255-byte domain name and port 443 has been built
C14_Witness ==
    /\ built /\ packet.ok
    /\ target.host.ip[1] = "none" /\ Len(target.host.text) = 255
    /\ target.port = 443 /\ Len(payload) = MaxPayload

\* C16: with a cap K >= 1 an open connection has carried fewer than K
\* writes, and a connection that is closed with no write failure and before
\* the deadline has carried exactly K writes; with no cap a connection is
\* never closed that way (only a write failure or the deadline close it).
C16_CapClosesConnection ==
    /\ []((twopen /\ twK >= 1) => twwrites < twK)
    /\ [][(twopen /\ ~twopen' /\ twfailures' = twfailures /\ twdeadline # "past") =>
             (twK >= 1 /\ twwrites' = twK)]_vars
    /\ [][(twopen /\ ~twopen' /\ twK = None) =>
             (twfailures' = twfailures + 1 \/ twdeadline = "past")]_vars

\* cap 2: two connections were closed by the cap, no failure, no deadline
C16_Witness ==
    /\ twK = 2 /\ twconns = 2 /\ ~twopen /\ twwrites = 2
    /\ twfailures = 0 /\ twdeadline = "none"

\* C17 (as claimed): every failure the TCP worker records, for a failed
\* connect or a failed write, is a single one and is followed by the 200 ms
\* back-off.
C17_FailureThenBackoff ==
    [][twfailures' # twfailures =>
         (twfailures' = twfailures + 1 /\ twpc' = "backoff200")]_vars

\* C18 (as claimed): when a request of the download worker is over, success
\* has grown by one iff the response headers were received, failure has
\* grown by one iff the request failed before the headers or the body stream
\* returned an error, bytes has grown by the sum of the chunks received, and
\* the worker is back at the head of its loop.
C18_RequestAccounting ==
    [][(hwpc \in {"execute", "stream"} /\ hwpc' \notin {"execute", "stream"}) =>
         /\ hwpc' = "top"
         /\ hwcount'.success - hwstart.success = (IF hwreq'.headers THEN 1 ELSE 0)
         /\ hwcount'.failure - hwstart.failure = (IF hwreq'.error # "none" THEN 1 ELSE 0)
         /\ hwcount'.bytes - hwstart.bytes = hwreq'.chunks]_vars

FreeInWindow ==
    LET hi == IF fpstart + MaxProbes - 1 > U16Max THEN U16Max
              ELSE fpstart + MaxProbes - 1
    IN {p \in fpstart..hi : ~Occupied(p, fpocc)}

\* C20: when find_next_free_port has returned, its result is the lowest
\* bindable port p with start <= p <= min(start + 9999, 65535), it is absent
\* iff no port of that range is bindable, it is never below start, and the
\* call holds no listener.
C20_LowestFreePortInWindow ==
    fppc = "returned" =>
      /\ (fpresult = None) <=> (FreeInWindow = {})
      /\ fpresult # None =>
            /\ fpresult \in FreeInWindow
            /\ \A q \in FreeInWindow : fpresult <= q
            /\ fpresult >= fpstart
      /\ fpheld = {}

\* the last port of the window was the only bindable one and was returned
C20_Witness ==
    /\ fppc = "returned" /\ fpocc # <<>>
    /\ fpresult = fpstart + MaxProbes - 1 /\ fpk = MaxProbes - 1

\* C21: every terminate() that has returned classified its child by exactly
\* one outcome: Killed iff the poll showed it running and kill and wait both
\* succeeded, AlreadyExited iff the poll showed it not running, RaceExited
\* iff the poll showed it running and kill failed with NotFound or
\* InvalidInput; none of the three is counted as an error, and a child
\* classified Killed has been reaped.
C21_TerminationStatus ==
    /\ \A i \in DOMAIN tkout :
         LET o == tkout[i] IN
         /\ o.status \in {"Killed", "AlreadyExited", "RaceExited", "Err"}
         /\ (o.status = "Killed") <=>
              (o.poll = "running" /\ o.kill = "Ok" /\ o.wait = "Ok")
         /\ (o.status = "AlreadyExited") <=> (o.poll # "running")
         /\ (o.status = "RaceExited") <=>
              (o.poll = "running" /\ o.kill \in {"NotFound", "InvalidInput"})
         /\ (o.status = "Killed") => (tkkids[i] = "reaped")
    /\ tkerrors = Cardinality({i \in DOMAIN tkout : tkout[i].status = "Err"})

\* one child was killed and reaped, the other exited in the shutdown window
C21_Witness ==
    /\ tkpc = "done"
    /\ tkout[1].status = "Killed" /\ tkout[2].status = "RaceExited"
    /\ tkerrors = 0

\* C22: with a deadline set the reporter is stopped only when the deadline
\* has passed, every tick emits exactly one line, the check that follows a
\* tick made at or after the deadline stops it, and no line is emitted once
\* such a tick has happened.
C22_ReporterStopsAtDeadline ==
    /\ [](rpend # "none" =>
            /\ (rppc = "stopped" => rpend = "past")
            /\ rplines = rpticks
            /\ rpafter <= 1
            /\ (rpafter = 1 => rppc \in {"check", "stopped"}))
    /\ [][(rpend # "none" /\ rppc = "check" /\ rpafter = 1 /\ rppc' # rppc) =>
             rppc' = "stopped"]_vars
    /\ [][rplines' # rplines => (rplines' = rplines + 1 /\ rpafter = 0)]_vars

\* two ticks before the deadline, one after it, then the reporter stopped
C22_Witness ==
    /\ rppc = "stopped" /\ rpend = "past" /\ rpticks = 3 /\ rplines = 3 /\ rpafter = 1

RECURSIVE ClaimedEma(_)
\* the average of the claim over the per-tick rates: the first rate seeds it,
\* then ema = 0.3 * rate + 0.7 * ema, as a fraction
ClaimedEma(rates) ==
    IF Len(rates) = 1 THEN [n |-> rates[1], d |-> 1]
    ELSE LET prev == ClaimedEma(SubSeq(rates, 1, Len(rates) - 1)) IN
         [n |-> 3 * rates[Len(rates)] * prev.d + 7 * prev.n, d |-> 10 * prev.d]

\* two fractions are the same number
SameRate(a, b) == a.n * b.d = b.n * a.d

\* C28 (as claimed): after a tick in download mode the reported speed is the
\* exponential moving average of the per-tick rates (factor 0.3, seeded by
\* the first rate); in the flood modes it is the rate of that tick.
C28_EmaInDownloadMode ==
    rpticks >= 1 =>
      IF rpmode = "Download"
      THEN SameRate(rpspeed, ClaimedEma(rprates))
      ELSE SameRate(rpspeed, [n |-> rprates[Len(rprates)], d |-> 1])

\* cleanup_all on a directory that is already gone succeeds and changes
\* nothing
CleanupIdempotent ==
    [][(cgcalls' # cgcalls /\ ~cgdir) =>
         (cgres' = "Ok" /\ cgdir' = cgdir /\ cgfiles' = cgfiles)]_vars

C24_ParsedPortRange ==
    pupc # "input" =>
      /\ pures.ok => (1 < pures.port /\ pures.port <= U16Max)
      /\ (puurl.port = <<0>> \/ puurl.port = <<1>>) => ~pures.ok

\* a Shadowsocks URL with the largest port was parsed and accepted
C24_Witness ==
    /\ pupc = "parsed" /\ pures.ok /\ pures.kind = "Shadowsocks"
    /\ pures.port = U16Max

\* C26: for a VLESS URL with security=reality that parse_proxy_url accepts,
\* the generated realitySettings carry a non-empty publicKey and a non-empty
\* shortId; a reality URL without pbk or without sid is rejected by the
\* parser, so no config is generated for it.
C26_RealityKeysNonEmpty ==
    (puurl.scheme = "vless" /\ puurl.security = <<"reality">>) =>
      /\ (pupc = "generated") =>
           /\ pucfg.ok /\ pucfg.reality # <<>>
           /\ pucfg.reality[1].publicKey # ""
           /\ pucfg.reality[1].shortId # ""
      /\ (pupc # "input" /\ (puurl.pbk = <<>> \/ puurl.sid = <<>>)) => ~pures.ok

\* the line is neither blank nor a comment and parses on its own
LineParses(line) ==
    /\ Trim(line) # <<>> /\ Trim(line)[1] # Hash
    /\ ParseProxyUrl(Trim(line)[1]).ok

\* the records of the lines of `lines` that parse, in the order of the lines
RecordsOf(lines) ==
    LET kept == SelectSeq(lines, LineParses)
    IN  [i \in 1..Len(kept) |-> ParseProxyUrl(Trim(kept[i])[1])]

\* C25: parse_proxy_list skips blank and '#' lines, parses every other line
\* on its own and collects the records of exactly the lines that parse, in
\* input order (after each line: the records of the lines read so far); a
\* failing line never fails the list, and the result is an error exactly
\* when no line parsed.
C25_ListKeepsParsingLines ==
    /\ plpc # "off" => plconfigs = RecordsOf(SubSeq(pllines, 1, pli - 1))
    /\ plpc = "returned" =>
         /\ plconfigs = RecordsOf(pllines)
         /\ plres = "Err" <=> (\A i \in 1..Len(pllines) : ~LineParses(pllines[i]))
         /\ plres = "Ok" <=> (\E i \in 1..Len(pllines) : LineParses(pllines[i]))

\* a list returned Ok with two records although a line between the two
\* lines they came from failed to parse
C25_Witness ==
    /\ plpc = "returned" /\ plres = "Ok" /\ Len(pllines) = 3
    /\ LineParses(pllines[1]) /\ LineParses(pllines[3])
    /\ pllines[2] = <<GoodUrl("ss", 1)>>
    /\ Len(plconfigs) = 2 /\ plconfigs[1].kind # plconfigs[2].kind

\* the text denotes a port number of 1..65535
PortText(s) ==
    LET digits == IF s # <<>> /\ s[1] = "+" THEN Tail(s) ELSE s
    IN  /\ digits # <<>> /\ \A i \in 1..Len(digits) : IsDigit(digits[i])
        /\ DecimalValue(digits) \in 1..U16Max

\* the token is host:port or [addr]:port with a non-empty host and a port
\* of 1..65535
SocketToken(token) ==
    \E k \in 1..Len(token) :
      /\ token[k] = ":" /\ PortText(SubSeq(token, k + 1, Len(token)))
      /\ \/ k > 1 /\ token[1] # "["
         \/ k > 3 /\ token[1] = "[" /\ token[k - 1] = "]"

\* the tokens of the raw list that are not empty
TokensOf(raw) ==
    {TrimStr(SplitCommas(raw)[i]) : i \in 1..Len(SplitCommas(raw))} \ {<<>>}

\* C27: in the flood modes parse_target_list accepts a token only when it is
\* host:port or [addr]:port with a non-empty host and a port of 1..65535; a
\* token with port 0, without a port, with an empty host or without ':' is
\* rejected, and one rejected token fails the whole list.
C27_SocketTargets ==
    /\ tgpc # "off" =>
         \A i \in 1..Len(tgtargets) : tgtargets[i].port \in 1..U16Max
    /\ (tgpc = "returned" /\ tgres = "Ok") =>
         \A token \in TokensOf(tgraw) : SocketToken(token)
    /\ (tgpc = "returned" /\ \E token \in TokensOf(tgraw) : ~SocketToken(token))
         => tgres = "Err"

\* C29: the ports start_instances assigns within one call are strictly
\* increasing, hence pairwise distinct, and none is below base_port; after a
\* port was used the next probe starts above it, whatever base_port is.
C29_PortsStrictlyIncreasing ==
    /\ \A i \in 1..Len(ports) : ports[i] >= base_port
    /\ \A i, j \in 1..Len(ports) : i < j => ports[i] < ports[j]
    /\ (mainPc = "start_loop" /\ ports # <<>>) => probe_port > ports[Len(ports)]

\* start_instances is between taking and dropping its guard
InStart == mainPc \in {"start_loop", "start_ret"}

\* a monitor sweep is between taking and dropping its guard
InSweep == monPc \in {"check", "restart"}

\* the terminate_all call of c is between taking and dropping its guard
InTerminate(c) == tpc[c] \in {"iter", "cleanup", "summary"}

\* C30: access to the instance set is mutually exclusive: start_instances,
\* a monitor sweep and the terminate_all calls never overlap (whoever is
\* inside holds the mutex), so a sweep never sees a set that is being
\* populated or terminated and no instance is handled by two of them at once.
C30_MutualExclusion ==
    /\ InStart => (lock = "start" /\ ~InSweep /\ \A c \in Callers : ~InTerminate(c))
    /\ InSweep => (lock = "monitor" /\ \A c \in Callers : ~InTerminate(c))
    /\ \A c \in Callers :
         InTerminate(c) => (lock = c /\ \A d \in Callers \ {c} : ~InTerminate(d))
    /\ (~InStart /\ ~InSweep /\ \A c \in Callers : ~InTerminate(c)) => lock = "free"

\* a terminate_all call waits for the mutex while a sweep, which restarted
\* an instance, still holds it
C30_Witness ==
    /\ InSweep /\ lock = "monitor" /\ mres # NoRestart
    /\ \E c \in Callers : tpc[c] = "lock"

\* C31: once the deadline has been reached a worker that is at the head of
\* its loop starts nothing new and returns there: the HTTP worker issues no
\* request, the TCP worker opens no connection, the UDP worker opens no
\* association and sends no datagram; a worker that has returned does nothing.
C31_NoNewWorkAfterDeadline ==
    /\ [][(hwpc = "top" /\ hwdeadline = "past") =>
             (hwpc' \in {"top", "finished"} /\ hwreqs' = hwreqs)]_vars
    /\ [][(twpc = "top" /\ twdeadline = "past") =>
             (twpc' \in {"top", "finished"} /\ twconns' = twconns
              /\ twwrites' = twwrites)]_vars
    /\ [][(upc = "top" /\ udeadline = "past") =>
             (upc' \in {"top", "finished"} /\ uconns' = uconns
              /\ udgrams' = udgrams)]_vars
    /\ [][(hwpc \in Ended) => (hwpc' = hwpc /\ hwreqs' = hwreqs)]_vars
    /\ [][(twpc \in Ended) => (twpc' = twpc /\ twconns' = twconns
                                 /\ twwrites' = twwrites)]_vars
    /\ [][(upc \in Ended) => (upc' = upc /\ uconns' = uconns
                                /\ udgrams' = udgrams)]_vars

\* a UDP worker that held an association and had sent datagrams returned at
\* the head of its loop after the deadline
C31_Witness ==
    /\ mode = "UdpFlood" /\ upc = "finished" /\ udeadline = "past"
    /\ udgrams >= 1 /\ uconns >= 1

C33_ScratchDirPrivate ==
    \A p \in Procs :
      xpc[p] = "live" => (xdir /\ xwritten[p] \subseteq xfiles)

\* C34: when run() has returned after a deadline every task that can touch
\* the counters has ended: no counter changes after the return, and the
\* statistics printed after run() are the final counter values.
C34_CountersFinalAfterRun ==
    /\ [](jrun = "returned" => jdl = 0)
    /\ [][jrun = "returned" => jcount' = jcount]_vars
    /\ [](jprinted # None => jprinted = jcount)

\* C35: in the flood modes with payload length L, always
\* bytes_transferred <= L * packets_sent and packets_sent <= success_events,
\* and once every worker has finished or was aborted and joined,
\* success_events = packets_sent and bytes_transferred = L * packets_sent.
C35_FloodCounters ==
    /\ counters["bytes_transferred"] <= flen * counters["packets_sent"]
    /\ counters["packets_sent"] <= counters["success_events"]
    /\ (\A w \in CallerIds : fwst[w] \in {"finished", "cancelled"}) =>
         /\ counters["success_events"] = counters["packets_sent"]
         /\ counters["bytes_transferred"] = flen * counters["packets_sent"]

\* both workers are over, one of them aborted, after packets of the largest
\* length were recorded
C35_Witness ==
    /\ flen = MaxPayload /\ counters["packets_sent"] >= 2
    /\ \A w \in CallerIds : fwst[w] \in {"finished", "cancelled"}
    /\ \E w \in CallerIds : fwst[w] = "cancelled"


\* C36: dropping one clone of the ProcessManager handle while another is in
\* use kills no running child: the step in which the Ctrl+C task ends after
\* the failed signal registration leaves every running instance running
C36_CloneDropKillsNothing ==
    [][(hpc = "regfail" /\ hpc' = "dropped") =>
          /\ Len(instances') = Len(instances)
          /\ \A i \in 1..Len(instances) :
                instances[i].st = "running" => instances'[i].st = "running"]_vars


\* start_instances has returned Ok(ports) and nobody has called terminate_all
StartedNotTerminated == startResult = "Ok" /\ \A c \in Callers : tpc[c] = "idle"

\* C37: between the return of start_instances and the call of terminate_all
\* the ports of the instance set are the list start_instances returned, and
\* a step of the monitor sweep neither adds nor removes an instance nor
\* changes the port or the proxy record of one, whether a restart succeeds
\* or fails.
C37_MonitorKeepsInstanceSet ==
    /\ [](StartedNotTerminated => PortsOf(instances) = ports)
    /\ [][(StartedNotTerminated /\ lock = "monitor") =>
             /\ Len(instances') = Len(instances)
             /\ \A i \in 1..Len(instances) :
                   /\ instances'[i].port = instances[i].port
                   /\ instances'[i].rec = instances[i].rec]_vars

\* during the run a sweep's restart has just failed while the first
\* instance runs, and the set still has the ports that were returned
C37_Witness ==
    /\ StartedNotTerminated /\ mainPc = "run" /\ InSweep
    /\ Len(instances) = NumInstances
    /\ mres[2] \in RestartFailures
    /\ instances[1].st = "running" /\ instances[1].cached = FALSE
    /\ PortsOf(instances) = ports


\* the step is a restart of instance midx by the sweep that returns Err
RestartFails ==
    monPc = "restart" /\ lock = "monitor" /\ mres'[1] = midx /\ mres'[2] \in RestartFailures

\* the sweep leaves the instance it is at behind
SweepMovesOn == lock = "monitor" /\ midx <= Len(instances) /\ midx' = midx + 1

\* C38: a failed restart (config not written, spawn failed, new child gone
\* at once or not pollable) leaves the instance in the set with its port,
\* its record and the child it had, and the rest of the set as it was; the
\* sweep goes on with the next instance; and no sweep passes an instance
\* whose child has exited without a real restart attempt, so the restart is
\* tried again on every later sweep until it succeeds.
C38_FailedRestartKeepsInstance ==
    /\ [][RestartFails =>
             /\ Len(instances') = Len(instances)
             /\ \A i \in 1..Len(instances) :
                   /\ instances'[i].port = instances[i].port
                   /\ instances'[i].rec = instances[i].rec
                   /\ instances'[i].st = instances[i].st
                   /\ i # midx => instances'[i] = instances[i]
             /\ monPc' = "check" /\ lock' = "monitor" /\ midx' = midx + 1]_vars
    /\ [][(SweepMovesOn /\ instances[midx].st = "exited") =>
             /\ monPc = "restart"
             /\ mres'[1] = midx /\ mres'[2] \in RestartFailures \cup {"ok"}]_vars

\* the restart of the first instance has just failed, its exited child is
\* still the one the instance holds, and the sweep is at the second instance
C38_Witness ==
    /\ Alive /\ monPc = "check" /\ lock = "monitor" /\ midx = 2
    /\ Len(instances) = NumInstances
    /\ mres[1] = 1 /\ mres[2] \in RestartFailures
    /\ instances[1].st = "exited"


\* the terminate_all call of c has taken the mutex (and may have returned)
Entered(c) == tpc[c] \in {"iter", "cleanup", "summary", "done"}

\* a further terminate() on this instance (a second terminate_all, or Drop
\* for XrayInstance at clear()) sends no signal: is_running is false
NoFurtherKill(inst) ==
    \A out \in TerminateOutcomes(inst) : out[1] = "AlreadyExited" /\ out[2].st = inst.st

====
